---- MODULE Spec2Model ----
(***************************************************************************)
(* Payroll / bonus engine of the Telegram bot                              *)
(* (src/salary_folder/salary_update.py, src/salary_update.py).             *)
(*                                                                         *)
(* The workbook is modelled sheet by sheet: 'продажи' (sales), 'зарплата'  *)
(* (salary: the base-salary row followed by the ledger rows) and           *)
(* 'сводка_бонусов' (summary).  update_salary is one atomic step: it reads *)
(* the sheets, computes, and either writes the three sheets or raises and  *)
(* leaves the workbook as it was.                                          *)
(*                                                                         *)
(* Conventions.                                                            *)
(*  - TLA+ strings are ASCII: a Cyrillic literal of the source is written  *)
(*    transliterated with the prefix "ru:" ('банк' is "ru:bank", 'мини_12' *)
(*    is "ru:mini_12"), so that it stays distinct from the Latin literal   *)
(*    'bank'.                                                              *)
(*  - Money is in tenge, as integers.  The rates 0.05, 0.01, 0.12 and 0.04 *)
(*    are percentages; every amount the model multiplies by a rate is a    *)
(*    multiple of 100, so the products are exact.                          *)
(*  - A spreadsheet cell is a record with a kind k: "num" (a number n),    *)
(*    "nan" (blank cell, pandas NaN) or "str" (text that is not a number). *)
(***************************************************************************)
EXTENDS Integers, Sequences, FiniteSets, TLC

VARIABLES
    catalog,    \* BOILER_PRICES, the module-level dict
    sales,      \* sheet 'продажи': sequence of sales rows
    salary,     \* sheet 'зарплата': [columns, rows], rows[1] the base-salary row
    summary,    \* sheet 'сводка_бонусов': sequence of lines [Tip, Summa]
    temp,       \* temp_* columns of the last update_salary run (locals, never saved)
    lastOp,     \* the last operation on the workbook
    outcome,    \* how the last update_salary ended: "none", "ok", "error"
    repeats,    \* number of update_salary runs since the last edit (capped)
    replaced,   \* the last run overwrote the ledger of an earlier run, the sales edited since
    call,       \* a direct call of calculate_boiler_bonus: its arguments and result
    others,     \* the other sheets of the workbook: for each name, its header row
    staff,      \* the employee names of Alseit.xlsx and expenses.xlsx, and the last rename operation
    tax,        \* one sales row and what each profit function computed for it
    requests,   \* the /update requests of the bot process: where each handler is
    data_cache, \* utils.data_cache: [cache, timestamps, file_mod_times]
    world,      \* around the cache: file modification times, the clock, the last get
    split,      \* a text, a max_length and the parts each split function made of them
    expenses,   \* an expense workbook: the file, the rows of the sheet, the last call
    probe       \* a text and the amount _extract_amount_from_text finds in it

\* the variables of the payroll run, and those of the other parts of the bot
payroll == <<catalog, sales, salary, summary, temp, lastOp, outcome, repeats, replaced, call, others>>
side == <<tax, requests, data_cache, world, split, expenses, probe, staff>>
vars == <<payroll, side>>

\* the parts of the bot a specification leaves out stay as constructed
TaxIdle == tax = <<>>
BotIdle == requests = <<>>
CacheIdle == data_cache = <<>> /\ world = <<>>
RestIdle == split = <<>> /\ expenses = <<>> /\ probe = <<>> /\ staff = <<>>
SideIdle == TaxIdle /\ BotIdle /\ CacheIdle /\ RestIdle

----------------------------------------------------------------------------
(* Bounds of the model *)

MaxRows == 2        \* rows of the sales sheet in the interactive specification
MaxBatch == 2       \* rows of the sales sheet in the one-run specification
MaxQuantity == 2    \* largest quantity of a sales row
MaxRepeats == 2     \* consecutive runs that are counted
MaxTicks == 3       \* times the clock advances, by half of CACHE_DURATION each
MaxMtime == 3       \* largest modification time of a file
MaxLen == 4         \* characters of a text that is split
MaxLength == 3      \* largest max_length of a split
MaxText == 4        \* characters of a text an amount is looked for in
MaxExpenses == 2    \* rows of an expense sheet
MaxCells == 1       \* cells of the manager column when employees are renamed
MaxFiles == 11      \* files that are loaded through the cache

----------------------------------------------------------------------------
(* Cells *)

Num(n) == [k |-> "num", n |-> n]
NaN == [k |-> "nan", n |-> 0]
Str == [k |-> "str", n |-> 0]

\* pd.isna(cell)
isna(c) == c.k = "nan"

\* a + b on floats: NaN propagates
Add(a, b) == IF isna(a) \/ isna(b) THEN NaN ELSE Num(a.n + b.n)

\* x > 0 on floats: False for NaN
Positive(c) == ~isna(c) /\ c.n > 0

----------------------------------------------------------------------------
(* The catalog and the rates, src/salary_folder/salary_update.py:10-38 *)

BOILER_PRICES ==
    [b \in {"alseit_25", "alseit_30", "alseit_40", "alseit_50", "alseit_60",
            "alseit_70", "alseit_80", "alseit_90", "alseit_100", "alseit_120",
            "ru:standart_16", "ru:standart_20", "ru:mini_20", "ru:mini_16",
            "ru:mini_12", "balseit_15", "balseit_20"} |->
        CASE b = "alseit_25"      -> [price |-> 870000,  purchase |-> 566500]
          [] b = "alseit_30"      -> [price |-> 970000,  purchase |-> 586500]
          [] b = "alseit_40"      -> [price |-> 1300000, purchase |-> 646500]
          [] b = "alseit_50"      -> [price |-> 1400000, purchase |-> 696500]
          [] b = "alseit_60"      -> [price |-> 1500000, purchase |-> 746500]
          [] b = "alseit_70"      -> [price |-> 1600000, purchase |-> 796500]
          [] b = "alseit_80"      -> [price |-> 1800000, purchase |-> 896500]
          [] b = "alseit_90"      -> [price |-> 2000000, purchase |-> 946500]
          [] b = "alseit_100"     -> [price |-> 2400000, purchase |-> 1246500]
          [] b = "alseit_120"     -> [price |-> 3000000, purchase |-> 1546500]
          [] b = "ru:standart_16" -> [price |-> 790000,  purchase |-> 496500]
          [] b = "ru:standart_20" -> [price |-> 830000,  purchase |-> 521500]
          [] b = "ru:mini_20"     -> [price |-> 750000,  purchase |-> 456500]
          [] b = "ru:mini_16"     -> [price |-> 650000,  purchase |-> 396500]
          [] b = "ru:mini_12"     -> [price |-> 570000,  purchase |-> 331500]
          [] b = "balseit_15"     -> [price |-> 690000,  purchase |-> 321000]
          [] b = "balseit_20"     -> [price |-> 790000,  purchase |-> 430000]]

LOW_DEDUCTION_BOILERS ==
    {"ru:mini_12", "ru:mini_16", "ru:mini_20", "alseit_25", "alseit_30"}
LOW_DEDUCTION_AMOUNT == 50000
HIGH_DEDUCTION_AMOUNT == 100000

MANAGER_BONUS_RATE == 5     \* 0.05
ROP_BONUS_RATE == 1         \* 0.01
BANK_TAX_RATE == 12         \* 0.12
SALES_TAX_RATE == 4         \* the literal 0.04 of line 87

\* x * rate for a rate given in percent
Pct(x, rate) == (x * rate) \div 100

----------------------------------------------------------------------------
(* calculate_boiler_bonus, src/salary_folder/salary_update.py:40-101 *)

\* a result of calculate_boiler_bonus: the tuple it returns, or raised
Result(mb, rb, p) ==
    [raised |-> FALSE, manager_bonus |-> mb, rop_bonus |-> rb, profit |-> p]
ZeroResult == Result(0, 0, 0)
Raised == [raised |-> TRUE, manager_bonus |-> 0, rop_bonus |-> 0, profit |-> 0]

\* a mutant: the deduction follows the row's delivery amount
delivery_for_bonus_by_delivery(boiler_name, delivery_amount) ==
    IF delivery_amount > 0 THEN delivery_amount
    ELSE IF boiler_name \in LOW_DEDUCTION_BOILERS THEN LOW_DEDUCTION_AMOUNT
         ELSE HIGH_DEDUCTION_AMOUNT

\* lines 63-68: the deduction is fixed by the boiler's tier
delivery_for_bonus(boiler_name, delivery_amount) ==
    IF boiler_name \in LOW_DEDUCTION_BOILERS
        THEN LOW_DEDUCTION_AMOUNT
        ELSE HIGH_DEDUCTION_AMOUNT

\* lines 81-84: the methods calculate_boiler_bonus itself taxes
BANK_LIKE == {"ru:bank", "kaspi_pay", "kaspi_magazine"}

\* a mutant: the delivery deduction is subtracted from the profit as well
boiler_profit_less_delivery(total_price, total_purchase, payment_method, manager_bonus, accessories, deduction) ==
    total_price
      - (IF payment_method \in BANK_LIKE THEN Pct(total_price, BANK_TAX_RATE) ELSE 0)
      - Pct(total_price, SALES_TAX_RATE)
      - deduction
      - manager_bonus
      - total_purchase
      - accessories

\* lines 76-99: price - 12% (bank) - 4% - manager bonus - purchase - accessories
boiler_profit(total_price, total_purchase, payment_method, manager_bonus, accessories, deduction) ==
    total_price
      - (IF payment_method \in BANK_LIKE THEN Pct(total_price, BANK_TAX_RATE) ELSE 0)
      - Pct(total_price, SALES_TAX_RATE)
      - manager_bonus
      - total_purchase
      - accessories

\* a mutant: the guards of lines 49-57 are gone, an unknown boiler is priced 0
calculate_boiler_bonus_unguarded(boiler_name, payment_method, delivery_amount, accessories, quantity) ==
    LET price == IF boiler_name \in DOMAIN catalog
                     THEN catalog[boiler_name].price ELSE 0
        purchase == IF boiler_name \in DOMAIN catalog
                        THEN catalog[boiler_name].purchase ELSE 0
        total_price == price * quantity.n
        ded == delivery_for_bonus(boiler_name, delivery_amount)
        mb == Pct(total_price - ded, MANAGER_BONUS_RATE)
    IN  IF quantity.k # "num" THEN Raised
        ELSE Result(mb, Pct(total_price - ded, ROP_BONUS_RATE),
                    boiler_profit(total_price, purchase * quantity.n,
                                  payment_method, mb, accessories, ded))

\* quantity is the cell handed over by the caller: a number, or text, on which
\* total_price - delivery_for_bonus raises TypeError (line 71)
calculate_boiler_bonus(boiler_name, payment_method, delivery_amount, accessories, quantity) ==
    IF boiler_name \notin DOMAIN catalog THEN ZeroResult
    ELSE LET price == catalog[boiler_name].price
             purchase == catalog[boiler_name].purchase
         IN  IF price = 0 THEN ZeroResult
             ELSE IF quantity.k # "num" THEN Raised
             ELSE LET total_price == price * quantity.n
                      total_purchase == purchase * quantity.n
                      ded == delivery_for_bonus(boiler_name, delivery_amount)
                      manager_bonus == Pct(total_price - ded, MANAGER_BONUS_RATE)
                      rop_bonus == Pct(total_price - ded, ROP_BONUS_RATE)
                  IN  Result(manager_bonus, rop_bonus,
                             boiler_profit(total_price, total_purchase,
                                           payment_method, manager_bonus,
                                           accessories, ded))

----------------------------------------------------------------------------
(* Cells of the sales sheet *)

\* a text cell: s is its stripped, lower-case text, pad says it carries
\* leading or trailing blanks, up that it has upper-case letters
Text(s) == [k |-> "str", s |-> s, pad |-> FALSE, up |-> FALSE]
Padded(s) == [k |-> "str", s |-> s, pad |-> TRUE, up |-> FALSE]
Upper(s) == [k |-> "str", s |-> s, pad |-> FALSE, up |-> TRUE]
NoText == [k |-> "nan", s |-> "", pad |-> FALSE, up |-> FALSE]

\* str(x).strip(), str(x).lower()
strip(c) == [c EXCEPT !.pad = FALSE]
lower(c) == [c EXCEPT !.up = FALSE]
\* the Python string a text cell is equal to, if it is in canonical form
IsLiteral(c, lits) == c.k = "str" /\ ~c.pad /\ ~c.up /\ c.s \in lits

\* a date cell: text 'dd.mm.yyyy' ("str"), an Excel date ("ts"), any other
\* text ("bad") or blank ("nan"); "nat" is pandas NaT.  February 2024: day is
\* the day of the month.
DateText(d) == [k |-> "str", day |-> d]
DateCell(d) == [k |-> "ts", day |-> d]
BadDate == [k |-> "bad", day |-> 0]
NoDate == [k |-> "nan", day |-> 0]
NaT == [k |-> "nat", day |-> 0]

\* pd.to_datetime(cell, format='%d.%m.%Y', errors='coerce')
to_datetime(c) ==
    IF c.k \in {"str", "ts"} THEN DateCell(c.day) ELSE NaT

\* .dt.strftime('%d.%m.%Y'): NaT is written as a blank cell
strftime(c) ==
    IF c.k = "ts" THEN DateText(c.day) ELSE NoDate

\* a delivery cell: 'пэй', 'магазин', other text, a number, or blank
Delivery(s) == [k |-> "str", s |-> s, n |-> 0]
DeliveryNum(n) == [k |-> "num", s |-> "", n |-> n]
NoDelivery == [k |-> "nan", s |-> "", n |-> 0]

DELIVERY_PAY == 55000
DELIVERY_SHOP == 4700

----------------------------------------------------------------------------
(* update_salary, per row: src/salary_folder/salary_update.py:117-178 *)

CASH_WORDS == {"ru:nal", "ru:nalichnye", "ru:nalichka", "cash"}
BANK_WORDS == {"ru:bank", "ru:bankovskij", "ru:karta", "bank", "card"}

\* lines 131-141
normalize_payment(payment_method) ==
    IF isna(payment_method) THEN "ru:nalichnye"
    ELSE LET payment_str == lower(strip(payment_method))
         IN  IF IsLiteral(payment_str, CASH_WORDS) THEN "ru:nalichnye"
             ELSE IF IsLiteral(payment_str, BANK_WORDS) THEN "ru:bank"
             ELSE "ru:nalichnye"

\* lines 143-145: only a blank quantity is replaced
normalize_quantity(quantity) ==
    IF isna(quantity) THEN Num(1) ELSE quantity

\* lines 147-160
delivery_amount_of(delivery) ==
    IF isna(delivery) THEN 0
    ELSE IF delivery.k = "num" THEN delivery.n
    ELSE IF delivery.s = "ru:pay" THEN DELIVERY_PAY
    ELSE IF delivery.s = "ru:magazin" THEN DELIVERY_SHOP
    ELSE 0

\* lines 162-169: float(accessories), 0 when blank or not a number
normalize_accessories(accessories) ==
    IF accessories.k = "num" THEN accessories.n ELSE 0

\* the text of str(boiler_name).strip() as a dict key: a name that still has
\* upper-case letters is no key of the catalog
boiler_key(boiler_name) ==
    IF strip(boiler_name).up THEN "?" ELSE boiler_name.s

\* lines 171-173, for a row with a boiler name
row_bonus(row) ==
    calculate_boiler_bonus(boiler_key(row.boiler_name),
                           normalize_payment(row.payment_method),
                           delivery_amount_of(row.delivery),
                           normalize_accessories(row.accessories),
                           normalize_quantity(row.quantity))

\* lines 112-114 and 124-126: a row without a boiler name keeps the 0.0
has_boiler(row) == ~isna(row.boiler_name)

temp_of(row) == IF has_boiler(row) THEN row_bonus(row) ELSE ZeroResult

----------------------------------------------------------------------------
(* update_salary, the aggregation: src/salary_folder/salary_update.py:183-292 *)

RECURSIVE SumSeq(_)
SumSeq(ns) == IF ns = <<>> THEN 0 ELSE Head(ns) + SumSeq(Tail(ns))

\* line 183
parse_dates(rows) == [i \in 1..Len(rows) |-> [rows[i] EXCEPT !.date = to_datetime(@)]]

\* lines 187-188
exclude_cols ==
    {"date", "order", "developer", "employee ROP", "assistant", "assistant 2",
     "supplier manager"}
manager_cols(columns) == SelectSeq(columns, LAMBDA c : c \notin exclude_cols)
SeqRange(seq) == {seq[i] : i \in 1..Len(seq)}

\* the position of key (date, order) in the insertion-ordered dict, 0 if absent
KeyIndex(groups, date, order) ==
    LET hits == {j \in 1..Len(groups) : groups[j].date = date /\ groups[j].order = order}
    IN  IF hits = {} THEN 0 ELSE CHOOSE j \in hits : TRUE

\* lines 216-220: the manager's entry of the group is created at 0 and grows
credit_manager(group, row, t) ==
    LET ms == group.managers
        had == IF row.manager \in DOMAIN ms THEN ms[row.manager] ELSE 0
    IN  [group EXCEPT !.managers =
            [m \in (DOMAIN ms) \cup {row.manager} |->
                IF m = row.manager THEN had + t.manager_bonus ELSE ms[m]]]

\* a mutant: a row of an unknown manager is dropped whole, ROP bonus included
add_bonus_known_only(group, row, t, mcols) ==
    IF row.manager \in mcols
        THEN credit_manager([group EXCEPT !.rop = @ + t.rop_bonus], row, t)
        ELSE group

\* lines 212-223 for one row: the ROP bonus always, the manager's bonus when
\* the manager is a manager column
add_bonus(group, row, t, mcols) ==
    LET g1 == [group EXCEPT !.rop = @ + t.rop_bonus]
    IN  IF row.manager \in mcols THEN credit_manager(g1, row, t) ELSE g1

\* lines 193-223: bonus_dict as the sequence of its values, in insertion order
RECURSIVE bonus_dict(_, _, _, _)
bonus_dict(rows, temps, mcols, i) ==
    IF i = 0 THEN <<>>
    ELSE LET groups == bonus_dict(rows, temps, mcols, i - 1)
             row == rows[i]
             j == KeyIndex(groups, row.date, row.order)
             fresh == [date |-> row.date, order |-> row.order, rop |-> 0,
                       managers |-> [m \in {} |-> 0]]
         IN  IF ~has_boiler(row) THEN groups
             ELSE IF j = 0
                 THEN Append(groups, add_bonus(fresh, row, temps[i], mcols))
                 ELSE [groups EXCEPT ![j] = add_bonus(@, row, temps[i], mcols)]

\* a mutant: a column the group has no figure for is left blank
new_row_sparse(columns, data) ==
    [c \in SeqRange(columns) |->
        IF c = "date" THEN data.date
        ELSE IF c = "order" THEN Num(data.order)
        ELSE IF c = "employee ROP" THEN Num(data.rop)
        ELSE IF c \in DOMAIN data.managers THEN Num(data.managers[c])
        ELSE NaN]

\* lines 227-238: one ledger row per group, 0 in every other column
new_row(columns, data) ==
    [c \in SeqRange(columns) |->
        IF c = "date" THEN data.date
        ELSE IF c = "order" THEN Num(data.order)
        ELSE IF c = "employee ROP" THEN Num(data.rop)
        ELSE IF c \in DOMAIN data.managers THEN Num(data.managers[c])
        ELSE Num(0)]

\* sales_salary[col].sum()
ColumnSum(rows, col) == SumSeq([i \in 1..Len(rows) |-> rows[i][col].n])

\* a line of the summary: the columns 'Тип' and 'Сумма'
Line(tip, summa) == [Tip |-> tip, Summa |-> summa]
ROP_LINE == "ROP ru:sotrudniki"
TOTAL_LINE == "ru:OBSHCHAYA SUMMA"

\* lines 258-267
fixed_salary_cols == <<"developer", "assistant", "assistant 2", "supplier manager">>

RECURSIVE fixed_lines(_, _, _)
fixed_lines(columns, oklad, i) ==
    IF i = 0 THEN <<>>
    ELSE LET col == fixed_salary_cols[i]
             before == fixed_lines(columns, oklad, i - 1)
         IN  IF col \in SeqRange(columns) /\ Positive(oklad[col])
                 THEN Append(before, Line(col, oklad[col]))
                 ELSE before

\* a mutant: a manager gets a line whatever the total
include_total_always(total) == TRUE

\* line 279
include_total(total) == Positive(total)

\* lines 269-283
RECURSIVE manager_lines(_, _, _, _)
manager_lines(mcols, oklad, ledger, i) ==
    IF i = 0 THEN <<>>
    ELSE LET col == mcols[i]
             before == manager_lines(mcols, oklad, ledger, i - 1)
             total_salary == Add(oklad[col], Num(ColumnSum(ledger, col)))
         IN  IF include_total(total_salary)
                 THEN Append(before, Line(col, total_salary))
                 ELSE before

\* sum([item['Сумма'] for item in bonus_summary])
RECURSIVE total_of(_)
total_of(ls) ==
    IF ls = <<>> THEN Num(0)
    ELSE LET n == Len(ls) IN Add(total_of(SubSeq(ls, 1, n - 1)), ls[n].Summa)

\* a mutant: the grand total leaves the ROP line out
grand_total_without_rop(ls) == total_of(Tail(ls))

\* line 286
grand_total(ls) == total_of(ls)

\* lines 247-290
bonus_summary(columns, oklad, ledger) ==
    LET ls == <<Line(ROP_LINE, Add(oklad["employee ROP"], Num(ColumnSum(ledger, "employee ROP"))))>>
              \o fixed_lines(columns, oklad, Len(fixed_salary_cols))
              \o manager_lines(manager_cols(columns), oklad, ledger,
                               Len(manager_cols(columns)))
    IN  Append(ls, Line(TOTAL_LINE, grand_total(ls)))

----------------------------------------------------------------------------
(* update_salary as a whole: src/salary_folder/salary_update.py:103-324 *)

\* lines 305-317: the sales sheet as written back
sales_clean(rows) ==
    [i \in 1..Len(rows) |->
        [rows[i] EXCEPT
            !.date = strftime(to_datetime(to_datetime(@))),
            !.delivery_cost = IF has_boiler(rows[i])
                                  THEN Num(delivery_amount_of(rows[i].delivery))
                                  ELSE @]]

\* a mutant: the new rows are appended to the sheet as read
salary_final_appended(sheet, ledger) == sheet.rows \o ledger

\* a mutant: the last row of the sheet is carried instead of the first
salary_final_last(sheet, ledger) == <<sheet.rows[Len(sheet.rows)]>> \o ledger

\* lines 243-244: the first row of the sheet, then the new rows
salary_final(sheet, ledger) == <<sheet.rows[1]>> \o ledger

\* line 312
format_dates(rows) == [i \in 1..Len(rows) |-> [rows[i] EXCEPT !["date"] = strftime(to_datetime(@))]]

\* lines 296-303 and 321-322: every other sheet is read by read_excel and
\* written back by to_excel.  A sheet is its header row, a cell of which is
\* <<text>>, or <<>> when blank; read_excel names the column of a blank
\* header cell 'Unnamed: k' and the n-th repeat of a name 'name.n', and
\* to_excel writes those names.  The cells below the header are read and
\* written as they are.
existing_sheets(sheets) ==
    [name \in DOMAIN sheets |->
        LET header == sheets[name]
            repeats_of(k) == Cardinality({j \in 1..(k - 1) : header[j] = header[k]})
        IN  [k \in 1..Len(header) |->
                IF header[k] = <<>> THEN <<"Unnamed", k - 1>>
                ELSE IF repeats_of(k) > 0 THEN header[k] \o <<repeats_of(k)>>
                ELSE header[k]]]

\* what one call computes from the sheets it reads: raised, or the sheets it writes
run_update_salary(sales_sheet, salary_sheet) ==
    LET temps == [i \in 1..Len(sales_sheet) |-> temp_of(sales_sheet[i])]
        parsed == parse_dates(sales_sheet)
        columns == salary_sheet.columns
        groups == bonus_dict(parsed, temps, SeqRange(manager_cols(columns)), Len(parsed))
        ledger == [j \in 1..Len(groups) |-> new_row(columns, groups[j])]
        withBase == salary_final(salary_sheet, ledger)
        failed == \/ \E i \in 1..Len(temps) : temps[i].raised     \* TypeError, line 71
                  \/ Len(salary_sheet.rows) = 0                   \* IndexError, line 243
                  \/ "employee ROP" \notin SeqRange(columns)      \* KeyError, line 250
                  \/ Len(groups) = 0                              \* KeyError, line 251
    IN  IF failed
            THEN [raised |-> TRUE, sales |-> sales_sheet, salary |-> salary_sheet,
                   summary |-> <<>>, temp |-> <<>>]
            ELSE [raised |-> FALSE,
                   sales |-> sales_clean(sales_sheet),
                   salary |-> [columns |-> columns, rows |-> format_dates(withBase)],
                   summary |-> bonus_summary(columns, salary_sheet.rows[1], ledger),
                   temp |-> temps]

\* /update (src/command_handlers.py:48-55): the call, and the error reply when it raises
update_salary ==
    LET r == run_update_salary(sales, salary)
    IN  /\ sales' = r.sales
        /\ salary' = r.salary
        /\ summary' = IF r.raised THEN summary ELSE r.summary
        /\ temp' = r.temp
        /\ outcome' = IF r.raised THEN "error" ELSE "ok"
        /\ lastOp' = "update_salary"
        /\ repeats' = IF repeats < MaxRepeats THEN repeats + 1 ELSE repeats
        /\ replaced' = IF r.raised THEN FALSE
                       ELSE IF lastOp = "update_salary" THEN replaced
                       ELSE outcome = "ok"
        /\ others' = IF r.raised THEN others ELSE existing_sheets(others)
        /\ UNCHANGED <<catalog, call, side>>

----------------------------------------------------------------------------
(* The first update_salary, src/salary_update.py:14-112: the script of the  *)
(* repository root, which works on the same workbook                        *)

VAT_RATE == 16                      \* 0.16
LOW_PRICE_THRESHOLD == 300000
LOW_PRICE_DEDUCTION == 50000
HIGH_PRICE_DEDUCTION == 100000

\* line 35: sales['delivery'].map(delivery_costs).fillna(0), an exact match
legacy_delivery_cost(delivery) ==
    IF delivery.k = "str" /\ delivery.s = "ru:pay" THEN DELIVERY_PAY
    ELSE IF delivery.k = "str" /\ delivery.s = "ru:magazin" THEN DELIVERY_SHOP
    ELSE 0

\* lines 30-42 for one row: NaN when the price or the quantity is blank
legacy_bonus(row, rate) ==
    IF isna(row.price) \/ isna(row.quantity) THEN NaN
    ELSE LET total_price == row.price.n * row.quantity.n
             vat == Pct(total_price, VAT_RATE)
             base_amount == total_price - vat - legacy_delivery_cost(row.delivery)
             deduction == IF total_price < LOW_PRICE_THRESHOLD
                              THEN LOW_PRICE_DEDUCTION ELSE HIGH_PRICE_DEDUCTION
         IN  Num(Pct(base_amount - deduction, rate))

\* line 47: pd.to_datetime without a format reads 'dd.mm.yyyy' month first
\* (the days of the model are 12 at most): "mdy" is that other date
to_datetime_inferred(c) ==
    IF c.k = "str" THEN [k |-> "mdy", day |-> c.day]
    ELSE IF c.k = "ts" THEN c
    ELSE NaT

\* line 49: the columns whose name starts with 'manager_'
legacy_manager_cols(columns) ==
    SelectSeq(columns, LAMBDA c : c \in {"manager_1", "manager_2"})

\* lines 52-59: one ledger row per sales row
legacy_row(columns, row) ==
    [c \in SeqRange(columns) |->
        IF c = "date" THEN to_datetime_inferred(row.date)
        ELSE IF c = "order" THEN Num(row.order)
        ELSE IF c = "employee ROP" THEN legacy_bonus(row, ROP_BONUS_RATE)
        ELSE IF c = row.manager /\ c \in SeqRange(legacy_manager_cols(columns))
            THEN legacy_bonus(row, MANAGER_BONUS_RATE)
        ELSE Num(0)]

\* lines 78-85
RECURSIVE legacy_manager_lines(_, _, _)
legacy_manager_lines(mcols, ledger, i) ==
    IF i = 0 THEN <<>>
    ELSE LET col == mcols[i]
             before == legacy_manager_lines(mcols, ledger, i - 1)
             total_bonus == ColumnSum(ledger, col)
         IN  IF total_bonus > 0
                 THEN Append(before, Line(col, Num(total_bonus)))
                 ELSE before

\* line 88: total_rop_bonus + sum(the lines after the first)
legacy_grand_total(total_rop_bonus, ls) ==
    Add(Num(total_rop_bonus), total_of(Tail(ls)))

\* lines 68-92
legacy_summary(columns, ledger) ==
    LET total_rop_bonus == ColumnSum(ledger, "employee ROP")
        ls == <<Line(ROP_LINE, Num(total_rop_bonus))>>
              \o legacy_manager_lines(legacy_manager_cols(columns), ledger,
                                      Len(legacy_manager_cols(columns)))
    IN  Append(ls, Line(TOTAL_LINE, legacy_grand_total(total_rop_bonus, ls)))

\* the script as a whole: it replaces the sheets 'зарплата' and
\* 'сводка_бонусов' (line 97) and leaves 'продажи' alone
update_salary_legacy ==
    LET columns == salary.columns
        ledger == [i \in 1..Len(sales) |-> legacy_row(columns, sales[i])]
        failed == \/ \E i \in 1..Len(sales) :                  \* TypeError, lines 30-33
                        "str" \in {sales[i].price.k, sales[i].quantity.k, sales[i].purchase.k}
                  \/ Len(salary.rows) = 0                       \* IndexError, line 64
                  \/ Len(sales) = 0                             \* KeyError, line 71
                  \/ "employee ROP" \notin SeqRange(columns)
    IN  /\ salary' = IF failed THEN salary
                     ELSE [columns |-> columns, rows |-> <<salary.rows[1]>> \o ledger]
        /\ summary' = IF failed THEN summary ELSE legacy_summary(columns, ledger)
        /\ outcome' = IF failed THEN "error" ELSE "ok"
        /\ lastOp' = "update_salary_legacy"
        /\ temp' = <<>>
        /\ repeats' = 0
        /\ replaced' = FALSE
        /\ UNCHANGED <<catalog, others, sales, call, side>>

----------------------------------------------------------------------------
(* The workbook and its editing *)

\* a row of the sales sheet; its price and purchase columns hold the list
\* price and cost of the boiler, blank for a boiler that has none
Row(date, order, boiler_name, payment_method, quantity, delivery, accessories, manager) ==
    [date |-> date, order |-> order, boiler_name |-> boiler_name,
     payment_method |-> payment_method, quantity |-> quantity,
     delivery |-> delivery, accessories |-> accessories, manager |-> manager,
     delivery_cost |-> NaN,
     price |-> IF boiler_name.s \in DOMAIN BOILER_PRICES
                   THEN Num(BOILER_PRICES[boiler_name.s].price) ELSE NaN,
     purchase |-> IF boiler_name.s \in DOMAIN BOILER_PRICES
                      THEN Num(BOILER_PRICES[boiler_name.s].purchase) ELSE NaN]

\* the rows a user enters in the interactive specification
SaleRows ==
    { Row(DateText(1), 1, Text("ru:mini_12"), Text("ru:nal"), Num(1), NoDelivery, NaN, "manager_1"),
      Row(DateCell(1), 1, Text("alseit_40"), Upper("ru:bank"), Num(MaxQuantity), Delivery("ru:pay"), Num(20000), "manager_2"),
      Row(BadDate, 1, Padded("alseit_25"), NoText, NaN, Delivery("ru:magazin"), Str, "stazher"),
      Row(DateText(1), 2, NoText, Text("ru:nal"), Num(1), NoDelivery, Num(5000), "manager_1"),
      Row(DateText(2), 2, Text("ru:mini_12"), Text("ru:nal"), Str, NoDelivery, NaN, "manager_2") }

\* the salary sheet: its header and the base-salary row, whose order cell is
\* the sentinel text and whose date cell is blank
BaseRow(columns, oklad) ==
    [c \in SeqRange(columns) |->
        IF c = "date" THEN NoDate ELSE IF c = "order" THEN Str ELSE oklad[c]]

NoManagers == <<"date", "order", "employee ROP">>
FullRoster ==
    <<"date", "order", "employee ROP", "developer", "assistant", "manager_1", "manager_2">>

Sheet(columns, oklad) == [columns |-> columns, rows |-> <<BaseRow(columns, oklad)>>]

\* base salaries of the full roster, in the order ROP, developer, assistant,
\* manager_1, manager_2
Oklad(rop, developer, assistant, m1, m2) ==
    [c \in {"employee ROP", "developer", "assistant", "manager_1", "manager_2"} |->
        CASE c = "employee ROP" -> rop
          [] c = "developer" -> developer
          [] c = "assistant" -> assistant
          [] c = "manager_1" -> m1
          [] c = "manager_2" -> m2]

SalarySheets ==
    { Sheet(NoManagers, [c \in {"employee ROP"} |-> Num(0)]),
      Sheet(FullRoster, Oklad(Num(150000), Num(300000), Num(0), Num(0), Num(200000))) }

NoCall == [args |-> <<>>, done |-> FALSE, result |-> ZeroResult]

Init ==
    /\ catalog = BOILER_PRICES
    /\ others = <<>>
    /\ sales = <<>>
    /\ salary \in SalarySheets
    /\ summary = <<>>
    /\ temp = <<>>
    /\ lastOp = "init"
    /\ outcome = "none"
    /\ repeats = 0
    /\ replaced = FALSE
    /\ call = NoCall
    /\ SideIdle

Edited(op) ==
    /\ lastOp' = op
    /\ temp' = <<>>
    /\ repeats' = 0
    /\ replaced' = FALSE
    /\ UNCHANGED <<catalog, others, salary, summary, outcome, call, side>>

AddSale ==
    /\ Len(sales) < MaxRows
    /\ \E r \in SaleRows : sales' = Append(sales, r)
    /\ Edited("add")

EditSale ==
    /\ \E i \in 1..Len(sales), r \in SaleRows :
          /\ sales[i] # r
          /\ sales' = [sales EXCEPT ![i] = r]
    /\ Edited("edit")

DeleteSale ==
    /\ \E i \in 1..Len(sales) :
          sales' = SubSeq(sales, 1, i - 1) \o SubSeq(sales, i + 1, Len(sales))
    /\ Edited("delete")

Next == AddSale \/ EditSale \/ DeleteSale \/ update_salary

Spec == Init /\ [][Next]_vars

----------------------------------------------------------------------------
(* One workbook, one or more runs: the sheets are drawn at the start *)

\* the shipped catalog, and the same with the boiler that has no price yet
\* (the case of line 56)
Unpriced == [price |-> 0, purchase |-> 0]
WithUnpriced ==
    [b \in (DOMAIN BOILER_PRICES) \cup {"elbrus_100"} |->
        IF b = "elbrus_100" THEN Unpriced ELSE BOILER_PRICES[b]]
Catalogs == {BOILER_PRICES, WithUnpriced}

BatchRows ==
    { Row(DateText(1), 1, Text("ru:mini_12"), Text("ru:nal"), Num(1), NoDelivery, NaN, "manager_1"),
      Row(DateCell(1), 1, Text("alseit_40"), Upper("ru:bank"), Num(MaxQuantity), Delivery("ru:pay"), Num(20000), "manager_2"),
      Row(DateText(1), 1, Padded("alseit_25"), NoText, NaN, Delivery("ru:magazin"), Str, "stazher"),
      Row(DateText(1), 2, Text("elbrus_100"), Text("kaspi_pay"), Num(1), NoDelivery, NaN, "manager_1"),
      Row(DateText(1), 2, Text("elbrus_100"), Text("ru:nal"), Str, Delivery("kurier"), Num(5000), "stazher"),
      Row(DateText(1), 2, NoText, Text("ru:nal"), Num(1), NoDelivery, Num(5000), "manager_1"),
      Row(DateText(1), 2, Text("ru:mini_12"), Text("ru:nal"), Str, NoDelivery, NaN, "manager_2"),
      Row(BadDate, 1, Text("alseit_40"), Text("card"), Num(0), DeliveryNum(3000), NaN, "manager_1"),
      Row(DateText(1), 2, Text("ru:mini_12"), Text("cash"), Num(0), NoDelivery, NaN, "manager_1"),
      Row(DateText(2), 2, Text("alseit_25"), Text("ru:karta"), Num(1), NoDelivery, Num(400000), "manager_2") }

Batches == UNION {[1..n -> BatchRows] : n \in 0..MaxBatch}

RunSheets ==
    SalarySheets \cup
    { Sheet(FullRoster, Oklad(Num(0), NaN, Num(100000), NaN, Num(0))),
      Sheet(FullRoster, Oklad(NaN, Num(0), Num(0), Num(0), Num(0))) }

\* a direct call of calculate_boiler_bonus, with arguments as its callers and
\* tests may pass them
CallNames == (DOMAIN WithUnpriced) \cup {"vulkan_10"}
CallPayments == {"ru:nalichnye", "ru:bank", "kaspi_pay", "kaspi_magazine", "ru:karta"}
CallDeliveries == {0, DELIVERY_SHOP, DELIVERY_PAY}
CallAccessories == {0, 20000, 400000}
CallQuantities == {Num(q) : q \in 0..MaxQuantity} \cup {Str}
Calls ==
    { [args |-> <<b, p, d, a, q>>, done |-> FALSE, result |-> ZeroResult] :
        b \in CallNames, p \in CallPayments, d \in CallDeliveries,
        a \in CallAccessories, q \in CallQuantities }

InitRun ==
    /\ catalog \in Catalogs
    /\ others = <<>>
    /\ \/ /\ sales \in Batches
          /\ salary \in RunSheets
          /\ call = NoCall
       \/ /\ sales = <<>>
          /\ salary = Sheet(NoManagers, [c \in {"employee ROP"} |-> Num(0)])
          /\ call \in Calls
    /\ summary = <<>>
    /\ temp = <<>>
    /\ lastOp = "init"
    /\ outcome = "none"
    /\ repeats = 0
    /\ replaced = FALSE
    /\ SideIdle

Calc ==
    /\ call.args # <<>>
    /\ ~call.done
    /\ call' = [call EXCEPT
                   !.done = TRUE,
                   !.result = calculate_boiler_bonus(call.args[1], call.args[2],
                                                     call.args[3], call.args[4],
                                                     call.args[5])]
    /\ UNCHANGED <<catalog, others, sales, salary, summary, temp, lastOp, outcome, repeats, replaced, side>>

\* lines 356-555: what get_salary_summary reports from the sheets it
\* reads: an error message, or the lines 'Итого' and their sum.  The rows
\* are grouped by the date cell as read (no line parses it), and a frame
\* of no rows has no column (lines 490, 511).
get_salary_summary_of(sales_sheet, salary_sheet) ==
    LET temps == [i \in 1..Len(sales_sheet) |-> temp_of(sales_sheet[i])]
        columns == salary_sheet.columns
        groups == bonus_dict(sales_sheet, temps, SeqRange(manager_cols(columns)),
                             Len(sales_sheet))
        ledger == [j \in 1..Len(groups) |-> new_row(columns, groups[j])]
        oklad == salary_sheet.rows[1]
        rop_oklad == IF "employee ROP" \in SeqRange(columns) THEN oklad["employee ROP"] ELSE Num(0)
        total_rop_bonus == SumSeq([j \in 1..Len(groups) |-> groups[j].rop])
        ls == <<Line(ROP_LINE, Add(rop_oklad, Num(total_rop_bonus)))>>
                \o fixed_lines(columns, oklad, Len(fixed_salary_cols))
                \o (IF groups = <<>> THEN <<>>
                    ELSE manager_lines(manager_cols(columns), oklad, ledger,
                                       Len(manager_cols(columns))))
        failed == \/ \E i \in 1..Len(temps) : temps[i].raised     \* TypeError, line 71
                  \/ Len(salary_sheet.rows) = 0                   \* IndexError, line 366
    IN  IF failed THEN [raised |-> TRUE, lines |-> <<>>, total_all |-> Num(0)]
        ELSE [raised |-> FALSE, lines |-> ls, total_all |-> total_of(ls)]

\* the command that shows the salaries; it writes no sheet
get_salary_summary ==
    /\ probe' = get_salary_summary_of(sales, salary)
    /\ UNCHANGED <<payroll, tax, requests, data_cache, world, split, expenses, staff>>

NextRun == update_salary \/ update_salary_legacy \/ Calc

\* a workbook with other sheets, read by the two computations of the summary
OtherSheets ==
    {<<>>} \cup {("ru:sklad" :> header) @@ ("ru:zametki" :> <<<<"a">>>>) :
                    header \in {<<<<"a">>, <<"b">>>>, <<<<"a">>, <<>>>>, <<<<"a">>, <<"a">>>>}}

InitBook ==
    /\ catalog \in Catalogs
    /\ others \in OtherSheets
    /\ sales \in Batches
    /\ salary \in RunSheets
    /\ call = NoCall
    /\ summary = <<>>
    /\ temp = <<>>
    /\ lastOp = "init"
    /\ outcome = "none"
    /\ repeats = 0
    /\ replaced = FALSE
    /\ SideIdle

NextBook == update_salary \/ get_salary_summary

SpecBook == InitBook /\ [][NextBook]_vars

SpecRun == InitRun /\ [][NextRun]_vars

----------------------------------------------------------------------------
(* The profit of one sales row, as each of the four profit computations    *)
(* takes it: update_salary and, in src/utils.py, get_gross_profit (233-301),*)
(* get_net_profit_from_sales (379-449) and get_net_profit (510-567)         *)

\* the payroll variables while another part of the bot is looked at
PayrollIdle ==
    /\ catalog = BOILER_PRICES
    /\ others = <<>>
    /\ sales = <<>>
    /\ salary = Sheet(NoManagers, [c \in {"employee ROP"} |-> Num(0)])
    /\ summary = <<>>
    /\ temp = <<>>
    /\ lastOp = "init"
    /\ outcome = "none"
    /\ repeats = 0
    /\ replaced = FALSE
    /\ call = NoCall

\* what a computation makes of a row: it skips the row, raises, or adds profit
Skipped == [state |-> "skipped", profit |-> NaN]
RowRaised == [state |-> "raised", profit |-> NaN]
Computed(profit) == [state |-> "computed", profit |-> profit]
NotRun == [state |-> "none", profit |-> NaN]

\* the Python string a raw cell compares equal to in `x in [...]`: its text
\* when it has no blanks around it and no upper-case letter
raw_text(c) == IF c.k = "str" /\ ~c.pad /\ ~c.up THEN c.s ELSE "?"

\* the catalog test of a name and the price guard, utils.py 247-255
priced(name) == name \in DOMAIN catalog /\ catalog[name].price # 0

\* float(x) if pd.notna(x) else d, utils.py 260-263
float_or(c, d) == IF isna(c) THEN d ELSE c.n

\* salary_update.py 171-177: temp_profit of the row
update_salary_of(row) ==
    IF ~has_boiler(row) \/ ~priced(boiler_key(row.boiler_name)) THEN Skipped
    ELSE IF row_bonus(row).raised THEN RowRaised
    ELSE Computed(Num(row_bonus(row).profit))

\* utils.py 233-301: the name is stripped, the payment method is used as read
gross_profit_of(row) ==
    LET boiler_name == boiler_key(row.boiler_name)
    IN  IF isna(row.boiler_name) \/ ~priced(boiler_name) THEN Skipped
        ELSE IF "str" \in {row.price.k, row.quantity.k, row.purchase.k, row.accessories.k}
            THEN Skipped                                   \* lines 264-266
        ELSE LET total_price == float_or(row.price, 0) * float_or(row.quantity, 1)
                 total_purchase == float_or(row.purchase, 0) * float_or(row.quantity, 1)
                 ded == delivery_for_bonus(boiler_name, 0)
                 manager_bonus == Pct(total_price - ded, MANAGER_BONUS_RATE)
             IN  Computed(Num(boiler_profit(total_price, total_purchase,
                                            raw_text(row.payment_method), manager_bonus,
                                            float_or(row.accessories, 0), ded)))

\* utils.py 379-449: the name is stripped, the payment method normalised
net_profit_from_sales_of(row) ==
    LET boiler_name == boiler_key(row.boiler_name)
        payment_str == lower(strip(row.payment_method))
        payment_method == IF IsLiteral(payment_str, BANK_WORDS)
                              THEN "ru:bank" ELSE "ru:nalichnye"
    IN  IF isna(row.boiler_name) \/ ~priced(boiler_name) THEN Skipped
        ELSE IF "str" \in {row.price.k, row.quantity.k, row.purchase.k, row.accessories.k}
            THEN Skipped                                   \* lines 412-414
        ELSE LET total_price == float_or(row.price, 0) * float_or(row.quantity, 1)
                 total_purchase == float_or(row.purchase, 0) * float_or(row.quantity, 1)
                 ded == delivery_for_bonus(boiler_name, 0)
                 manager_bonus == Pct(total_price - ded, MANAGER_BONUS_RATE)
             IN  Computed(Num(boiler_profit(total_price, total_purchase,
                                            payment_method, manager_bonus,
                                            float_or(row.accessories, 0), ded)))

\* utils.py 510-567: name, payment method, quantity and accessories as read;
\* price and purchase from the catalog
net_profit_of(row) ==
    LET boiler_name == raw_text(row.boiler_name)
    IN  IF isna(row.boiler_name) \/ ~priced(boiler_name) THEN Skipped
        ELSE IF "str" \in {row.quantity.k, row.accessories.k} THEN RowRaised
        ELSE IF isna(row.quantity) \/ isna(row.accessories) THEN Computed(NaN)
        ELSE LET total_price == catalog[boiler_name].price * row.quantity.n
                 total_purchase == catalog[boiler_name].purchase * row.quantity.n
                 ded == delivery_for_bonus(boiler_name, 0)
                 manager_bonus == Pct(total_price - ded, MANAGER_BONUS_RATE)
             IN  Computed(Num(boiler_profit(total_price, total_purchase,
                                            raw_text(row.payment_method), manager_bonus,
                                            row.accessories.n, ded)))

ProfitFunctions ==
    {"update_salary", "get_gross_profit", "get_net_profit_from_sales", "get_net_profit"}

\* rows with a priced, a padded and an unknown boiler name and every kind of
\* payment method; the date is a date cell of the current month, which every
\* reading of the column keeps
TaxRows ==
    {Row(DateCell(1), 1, name, pm, q, NoDelivery, acc, Text("manager_1")) :
        name \in {Text("ru:mini_12"), Text("alseit_40"), Padded("alseit_25"), Text("vulkan_10")},
        pm \in {NoText, Text("ru:nalichnye"), Text("cash"), Text("ru:bank"), Upper("ru:bank"),
                Padded("ru:bank"), Text("ru:karta"), Text("card"), Text("kaspi_pay"),
                Text("kaspi_magazine"), Text("ru:perevod")},
        q \in {Num(1), Num(MaxQuantity), NaN}, acc \in {Num(0), Num(20000)}}

InitTax ==
    /\ PayrollIdle
    /\ BotIdle
    /\ CacheIdle
    /\ RestIdle
    /\ \E row \in TaxRows : tax = [row |-> row, by |-> [f \in ProfitFunctions |-> NotRun]]

Took(f, result) ==
    /\ tax.by[f] = NotRun
    /\ tax' = [tax EXCEPT !.by[f] = result]
    /\ UNCHANGED <<payroll, requests, data_cache, world, split, expenses, probe, staff>>

update_salary_row == Took("update_salary", update_salary_of(tax.row))
gross_profit_row == Took("get_gross_profit", gross_profit_of(tax.row))
net_profit_from_sales_row == Took("get_net_profit_from_sales", net_profit_from_sales_of(tax.row))
net_profit_row == Took("get_net_profit", net_profit_of(tax.row))

\* utils.py 322-461 over the rows of the current month: the sum of the
\* profits, 0.0 when a row raises (lines 457-461)
get_net_profit_from_sales(rows) ==
    LET of == [i \in 1..Len(rows) |-> net_profit_from_sales_of(rows[i])]
    IN  IF \E i \in 1..Len(rows) : of[i].state = "raised" THEN 0
        ELSE SumSeq([i \in 1..Len(rows) |-> IF of[i].state = "computed" THEN of[i].profit.n ELSE 0])

\* utils.py 463-586: the sum less the office expenses, not below 0.0;
\* max(0.0, nan) is 0.0, and so is the answer when a row raises
get_net_profit(rows, office_expenses) ==
    LET of == [i \in 1..Len(rows) |-> net_profit_of(rows[i])]
        total_net_profit ==
            SumSeq([i \in 1..Len(rows) |-> IF of[i].state = "computed" THEN of[i].profit.n ELSE 0])
        final_net_profit == total_net_profit - office_expenses
    IN  IF \E i \in 1..Len(rows) : of[i] \in {RowRaised, Computed(NaN)} THEN 0
        ELSE IF final_net_profit > 0 THEN final_net_profit ELSE 0

\* the two totals of the sheet that holds the row; get_office_expenses_total
\* (utils.py 588-630) answers the sum of the month's office expenses
net_profit_from_sales_total ==
    /\ tax # <<>>
    /\ "from_sales" \notin DOMAIN probe
    /\ probe' = ("from_sales" :> get_net_profit_from_sales(<<tax.row>>)) @@ probe
    /\ UNCHANGED <<payroll, tax, requests, data_cache, world, split, expenses, staff>>

net_profit_total ==
    /\ tax # <<>>
    /\ "net" \notin DOMAIN probe
    /\ \E office_expenses \in {0, 30000, 9000000} :
          probe' = ("net" :> get_net_profit(<<tax.row>>, office_expenses))
                     @@ ("office" :> office_expenses) @@ probe
    /\ UNCHANGED <<payroll, tax, requests, data_cache, world, split, expenses, staff>>

NextTax ==
    \/ update_salary_row \/ gross_profit_row \/ net_profit_from_sales_row \/ net_profit_row
    \/ net_profit_from_sales_total \/ net_profit_total

SpecTax == InitTax /\ [][NextTax]_vars

----------------------------------------------------------------------------
(* Two /update requests in the bot process.  The Application is built      *)
(* without concurrent updates (src/bot.py:1421) and a handler is a          *)
(* coroutine: it is left only at an await.  update_salary_command           *)
(* (src/command_handlers.py:48-55) calls update_salary, which has no await, *)
(* and then awaits reply_text.                                              *)

Requests == {1, 2}

\* a mutant: the handler works on the rows that were in the sheet when its
\* request arrived
sales_on_arrival(r) == SubSeq(sales, 1, requests[r].arrived)

\* salary_update.py 104: the sheet is read when update_salary runs
sales_read(r) == sales

InitBot ==
    /\ PayrollIdle
    /\ TaxIdle
    /\ CacheIdle
    /\ RestIdle
    /\ requests = [r \in Requests |-> [pc |-> "none", arrived |-> 0]]

\* the update /update reaches the bot
receive_update(r) ==
    /\ requests[r].pc = "none"
    /\ requests' = [requests EXCEPT ![r] = [pc |-> "queued", arrived |-> Len(sales)]]
    /\ UNCHANGED <<payroll, tax, data_cache, world, split, expenses, probe, staff>>

\* lines 50-51 up to the await of line 52 (or of line 55 when it raised)
update_salary_command(r) ==
    LET run == run_update_salary(sales_read(r), salary)
    IN  /\ requests[r].pc = "queued"
        /\ requests' = [requests EXCEPT ![r].pc = "replying"]
        /\ sales' = IF run.raised THEN sales ELSE run.sales
        /\ salary' = run.salary
        /\ summary' = IF run.raised THEN summary ELSE run.summary
        /\ temp' = run.temp
        /\ outcome' = IF run.raised THEN "error" ELSE "ok"
        /\ lastOp' = "update_salary"
        /\ repeats' = IF repeats < MaxRepeats THEN repeats + 1 ELSE repeats
        /\ replaced' = IF run.raised THEN FALSE
                       ELSE IF lastOp = "update_salary" THEN replaced
                       ELSE outcome = "ok"
        /\ others' = IF run.raised THEN others ELSE existing_sheets(others)
        /\ UNCHANGED <<catalog, call, tax, data_cache, world, split, expenses, probe, staff>>

\* lines 52 and 55: the reply is sent, the handler returns
reply_text(r) ==
    /\ requests[r].pc = "replying"
    /\ requests' = [requests EXCEPT ![r].pc = "done"]
    /\ UNCHANGED <<payroll, tax, data_cache, world, split, expenses, probe, staff>>

\* a sale is added to the sheet while the requests are under way
add_sale_meanwhile ==
    /\ Len(sales) < MaxRows
    /\ \E row \in SaleRows : sales' = Append(sales, row)
    /\ lastOp' = "add"
    /\ temp' = <<>>
    /\ repeats' = 0
    /\ replaced' = FALSE
    /\ UNCHANGED <<catalog, others, salary, summary, outcome, call, side>>

NextBot ==
    \/ \E r \in Requests : receive_update(r) \/ update_salary_command(r) \/ reply_text(r)
    \/ add_sale_meanwhile

SpecBot == InitBot /\ [][NextBot]_vars

----------------------------------------------------------------------------
(* DataCache, src/utils.py:10-84.  A key f"{file_path}:{sheet_name}" is the *)
(* pair <<file, sheet>>: a sheet name has no ':' in it, so the text of a    *)
(* key determines the pair, and no file path of the model is the start of   *)
(* another.                                                                 *)

CACHE_DURATION == 300
None == "None"

\* the sheets of the workbook that are cached, and the frames cached for them
CacheKeys == {<<"Alseit.xlsx", "sales">>, <<"Alseit.xlsx", "salary">>}
Frames == {"df1", "df2"}

\* a function without one of its arguments: del d[key]
Without(d, keys) == [k \in (DOMAIN d) \ keys |-> d[k]]

\* a mutant: the entry is dropped as soon as its age reaches CACHE_DURATION
expired_at_limit(age) == age >= CACHE_DURATION

\* a mutant: an entry lives twice as long
expired_late(age) == age > 2 * CACHE_DURATION

\* line 41
expired(age) == age > CACHE_DURATION

\* lines 55-63
clear_file_cache(dc, file_path) ==
    LET keys_to_remove == {k \in DOMAIN dc.cache : k[1] = file_path}
    IN  [cache |-> Without(dc.cache, keys_to_remove),
         timestamps |-> Without(dc.timestamps, keys_to_remove),
         file_mod_times |-> Without(dc.file_mod_times, {file_path})]

\* lines 24-46: the cache after the call and what the call returns
cache_get(dc, file_path, sheet_name, mod_time, now) ==
    LET key == <<file_path, sheet_name>>
        cached_mod_time == IF file_path \in DOMAIN dc.file_mod_times
                               THEN dc.file_mod_times[file_path] ELSE 0
    IN  IF key \notin DOMAIN dc.cache THEN [dc |-> dc, returns |-> None]
        ELSE IF mod_time > cached_mod_time
            THEN [dc |-> clear_file_cache(dc, file_path), returns |-> None]
        ELSE IF expired(now - dc.timestamps[key])
            THEN [dc |-> [dc EXCEPT !.cache = Without(@, {key}),
                                    !.timestamps = Without(@, {key})],
                  returns |-> None]
        ELSE [dc |-> dc, returns |-> dc.cache[key]]

\* lines 48-53
cache_set(dc, file_path, sheet_name, data, mod_time, now) ==
    LET key == <<file_path, sheet_name>>
    IN  [cache |-> (key :> data) @@ dc.cache,
         timestamps |-> (key :> now) @@ dc.timestamps,
         file_mod_times |-> (file_path :> mod_time) @@ dc.file_mod_times]

\* lines 12-15; the file exists and was last modified at time 1
InitCache ==
    /\ PayrollIdle
    /\ TaxIdle
    /\ BotIdle
    /\ RestIdle
    /\ data_cache = [cache |-> <<>>, timestamps |-> <<>>, file_mod_times |-> <<>>]
    /\ world = [mtime |-> [f \in {k[1] : k \in CacheKeys} |-> 1], now |-> 0,
                got |-> <<>>, lastSet |-> <<>>]

\* data_cache.get(file, sheet); got is the call and what it returned
get ==
    \E key \in CacheKeys :
        LET r == cache_get(data_cache, key[1], key[2], world.mtime[key[1]], world.now)
        IN  /\ data_cache' = r.dc
            /\ world' = [world EXCEPT !.got = <<key, r.returns>>]
            /\ UNCHANGED <<payroll, tax, requests, split, expenses, probe, staff>>

\* data_cache.set(file, sheet, data); lastSet remembers the call
set ==
    \E key \in CacheKeys, data \in Frames :
        /\ data_cache' = cache_set(data_cache, key[1], key[2], data,
                                   world.mtime[key[1]], world.now)
        /\ world' = [world EXCEPT
                        !.got = <<>>,
                        !.lastSet = (key :> [data |-> data, mtime |-> world.mtime[key[1]],
                                             now |-> world.now]) @@ @]
        /\ UNCHANGED <<payroll, tax, requests, split, expenses, probe, staff>>

\* the file is written: os.path.getmtime grows
modify_file ==
    \E f \in DOMAIN world.mtime :
        /\ world.mtime[f] < MaxMtime
        /\ world' = [world EXCEPT !.mtime[f] = @ + 1, !.got = <<>>]
        /\ UNCHANGED <<payroll, tax, requests, data_cache, split, expenses, probe, staff>>

\* time.time() advances
tick ==
    /\ world.now < MaxTicks * (CACHE_DURATION \div 2)
    /\ world' = [world EXCEPT !.now = @ + CACHE_DURATION \div 2, !.got = <<>>]
    /\ UNCHANGED <<payroll, tax, requests, data_cache, split, expenses, probe, staff>>

NextCache == get \/ set \/ modify_file \/ tick

SpecCache == InitCache /\ [][NextCache]_vars

\* config.py line 36; no line of utils.py reads it
MAX_CACHE_SIZE == 10

\* many workbooks, named 1, 2, ..., each loaded by its sheet of sales
InitFill ==
    /\ PayrollIdle
    /\ TaxIdle
    /\ BotIdle
    /\ RestIdle
    /\ data_cache = [cache |-> <<>>, timestamps |-> <<>>, file_mod_times |-> <<>>]
    /\ world = [mtime |-> [f \in 1..MaxFiles |-> 1], now |-> 0, got |-> <<>>, lastSet |-> <<>>]

\* lines 108-130: a hit is returned, a miss reads the sheet and caches it
load_excel_with_cache ==
    \E file_path \in 1..MaxFiles :
        LET cached == cache_get(data_cache, file_path, "sales", world.mtime[file_path], world.now)
        IN  /\ data_cache' = IF cached.returns # None THEN cached.dc
                              ELSE cache_set(cached.dc, file_path, "sales", "df1",
                                             world.mtime[file_path], world.now)
            /\ world' = [world EXCEPT !.got = <<<<file_path, "sales">>, "df1">>]
            /\ UNCHANGED <<payroll, tax, requests, split, expenses, probe, staff>>

NextFill == load_excel_with_cache

SpecFill == InitFill /\ [][NextFill]_vars

----------------------------------------------------------------------------
(* split_message_if_long, src/utils.py:164-182, and                        *)
(* CommandHandler._split_message, src/command_handlers.py:258-267.          *)
(* A text is a sequence of characters.                                      *)

\* text[i:j], a Python slice
Slice(text, i, j) == SubSeq(text, i + 1, IF j < Len(text) THEN j ELSE Len(text))

\* list(range(0, n, step)) in order
RangeFrom0(n, step) == [k \in 1..Cardinality({i \in 0..(n - 1) : i % step = 0}) |-> (k - 1) * step]

\* a mutant: the last part is dropped when it is shorter than max_length
split_whole_parts(text, max_length) ==
    [k \in 1..(Len(text) \div max_length) |->
        Slice(text, (k - 1) * max_length, k * max_length)]

\* utils.py 175-182
split_message_if_long(text, max_length) ==
    IF Len(text) <= max_length THEN <<text>>
    ELSE LET starts == RangeFrom0(Len(text), max_length)
         IN  [k \in 1..Len(starts) |-> Slice(text, starts[k], starts[k] + max_length)]

\* command_handlers.py 260-267
split_message(text, max_length) ==
    IF Len(text) <= max_length THEN <<text>>
    ELSE LET starts == RangeFrom0(Len(text), max_length)
         IN  [k \in 1..Len(starts) |-> Slice(text, starts[k], starts[k] + max_length)]

InitSplit ==
    /\ PayrollIdle
    /\ TaxIdle
    /\ BotIdle
    /\ CacheIdle
    /\ expenses = <<>>
    /\ probe = <<>>
    /\ staff = <<>>
    /\ \E n \in 0..MaxLen, max_length \in 1..MaxLength :
          \E text \in [1..n -> {"a", "b"}] :
              split = [text |-> text, max_length |-> max_length, made |-> <<>>]

split_message_if_long_call ==
    /\ "utils" \notin DOMAIN split.made
    /\ split' = [split EXCEPT
                    !.made = ("utils" :> split_message_if_long(split.text, split.max_length)) @@ @]
    /\ UNCHANGED <<payroll, tax, requests, data_cache, world, expenses, probe, staff>>

split_message_call ==
    /\ "handler" \notin DOMAIN split.made
    /\ split' = [split EXCEPT
                    !.made = ("handler" :> split_message(split.text, split.max_length)) @@ @]
    /\ UNCHANGED <<payroll, tax, requests, data_cache, world, expenses, probe, staff>>

NextSplit == split_message_if_long_call \/ split_message_call

SpecSplit == InitSplit /\ [][NextSplit]_vars

----------------------------------------------------------------------------
(* BaseExpenseManager, src/base_expense_manager.py.  A text is a sequence   *)
(* of characters: the digits "1" and "5", ".", " ", "k" for the letter 'к'  *)
(* and "p" for any other letter; in a voice text a whole word that has      *)
(* neither a digit nor a 'к' may stand as one element.  An amount is the    *)
(* decimal number mant * 10^exp; no digit of a text is a zero, so equal     *)
(* amounts are equal records.                                               *)

Amount(mant, exp) == [k |-> "amount", mant |-> mant, exp |-> exp]
NoAmount == [k |-> "none", mant |-> 0, exp |-> 0]

IsDigit(c) == c \in {"1", "5"}

\* float(group): the digits before the point, and those after it if any
RECURSIVE IntOf(_)
IntOf(digits) ==
    IF digits = <<>> THEN 0
    ELSE 10 * IntOf(SubSeq(digits, 1, Len(digits) - 1))
           + (IF digits[Len(digits)] = "5" THEN 5 ELSE 1)
float(group) ==
    LET dots == {i \in 1..Len(group) : group[i] = "."}
    IN  IF dots = {} THEN Amount(IntOf(group), 0)
        ELSE LET d == CHOOSE i \in dots : TRUE
             IN  Amount(IntOf(SubSeq(group, 1, d - 1) \o SubSeq(group, d + 1, Len(group))),
                        d - Len(group))

\* the ends e for which text[i..e] matches \d+(?:\.\d+)?
NumberEnds(text, i) ==
    {e \in i..Len(text) :
        LET group == SubSeq(text, i, e)
            dots == {j \in 1..Len(group) : group[j] = "."}
        IN  /\ \A j \in 1..Len(group) : IsDigit(group[j]) \/ j \in dots
            /\ Cardinality(dots) <= 1
            /\ \A j \in dots : 1 < j /\ j < Len(group)}

\* re.search: the leftmost start with a match, and there the match the
\* greedy quantifiers reach first; <<>> when there is none.  SuffixAfter is
\* the \s*к that the first pattern wants after the number.
search(text, suffixed) ==
    LET SuffixAfter(t, e) ==
            \E q \in (e + 1)..Len(t) : t[q] = "k" /\ \A j \in (e + 1)..(q - 1) : t[j] = " "
        ends(i) == {e \in NumberEnds(text, i) : ~suffixed \/ SuffixAfter(text, e)}
        starts == {i \in 1..Len(text) : ends(i) # {}}
    IN  IF starts = {} THEN <<>>
        ELSE LET i == CHOOSE i \in starts : \A j \in starts : i <= j
                 e == CHOOSE e \in ends(i) : \A x \in ends(i) : x <= e
             IN  <<SubSeq(text, i, e)>>

\* lines 338-348
extract_amount_from_text(text) ==
    IF search(text, TRUE) # <<>> THEN [float(search(text, TRUE)[1]) EXCEPT !.exp = @ + 3]
    ELSE IF search(text, FALSE) # <<>> THEN float(search(text, FALSE)[1])
    ELSE NoAmount

\* lines 350-354
determine_payment_method(text) ==
    IF \E i \in 1..Len(text) : text[i] \in {"ru:nalichnye", "ru:nalichkoj", "ru:dengi"}
        THEN "ru:nalichnye" ELSE "ru:karta"

\* what is said, the amount passed along, the category GPT answers
VoiceTexts ==
    {<<"p", "p">>, <<"5", " ", "p">>, <<"1", ".", "5", "k">>, <<"ru:nalichnye", " ", "1", "5">>}

\* utils.py 697-702, the fixed expenses of the office
fixed_expenses ==
    <<[category |-> "ru:arenda ofisa", amount |-> Amount(45, 4), comments |-> <<>>],
      [category |-> "ru:kommunalnye uslugi", amount |-> Amount(129, 3), comments |-> <<"ru:ofis">>],
      [category |-> "ru:voda", amount |-> Amount(88, 2), comments |-> <<>>],
      [category |-> "ru:uborka ofisa", amount |-> Amount(24, 3), comments |-> <<>>]>>

\* whether a date cell is read as a date of the current month.  A cell is
\* the text of today's date ("today") or of a day of another month
\* ("earlier"), or a date cell, of this month ("ts_month") or not
\* ("ts_other").  With format='%d.%m.%Y' the text of today is read as
\* written; without a format (utils.py 714) 'dd.mm.yyyy' is read month
\* first wherever the day can be a month, that is on the "early" days of a
\* month (up to the 12th, the day whose number is the month's apart), and
\* as written on the "late" days.
in_current_month(date, with_format, day) ==
    \/ date = "ts_month"
    \/ date = "today" /\ (with_format \/ day = "late")

\* the amounts texts are probed for, or a workbook on some day of the month:
\* the file is there or not (then there is no row to read), the sheet is
\* empty or has a row, of an earlier month or entered this month
InitExpenses ==
    /\ PayrollIdle
    /\ TaxIdle
    /\ BotIdle
    /\ CacheIdle
    /\ split = <<>>
    /\ staff = <<>>
    /\ \/ /\ \E n \in 0..MaxText : \E text \in [1..n -> {"1", "5", ".", " ", "k", "p"}] :
                probe = [text |-> text, done |-> FALSE, found |-> NoAmount]
          /\ expenses = [file |-> "missing", day |-> "late", rows |-> <<>>, last |-> <<>>]
       \/ /\ probe = <<>>
          /\ \E file \in {"workbook", "missing"}, day \in {"early", "late"} :
                \E rows \in {<<>>} \cup
                             {<<[date |-> d, category |-> "ru:zhilye",
                                 amount |-> Amount(25, 4),
                                 payment_method |-> "ru:karta",
                                 comments |-> <<"p">>]>> : d \in {"earlier", "ts_month"}} :
                    /\ file = "missing" => rows = <<>>
                    /\ expenses = [file |-> file, day |-> day, rows |-> rows, last |-> <<>>]

\* _extract_amount_from_text(text)
extract_amount_call ==
    /\ probe # <<>>
    /\ ~probe.done
    /\ probe' = [probe EXCEPT !.done = TRUE, !.found = extract_amount_from_text(probe.text)]
    /\ UNCHANGED <<payroll, tax, requests, data_cache, world, split, expenses, staff>>

\* lines 107-147; ExcelWriter in mode 'a' raises when the file is not there
add_expense_from_voice ==
    \E text \in VoiceTexts, given \in {NoAmount, Amount(7, 3)}, category \in {"ru:eda", "ru:prochee"} :
        LET amount == IF given = NoAmount THEN extract_amount_from_text(text) ELSE given
            new_expense == [date |-> "today", category |-> category, amount |-> amount,
                            payment_method |-> determine_payment_method(text),
                            comments |-> text]
            written == amount # NoAmount /\ expenses.file = "workbook"
        IN  /\ probe = <<>>
            /\ written => Len(expenses.rows) < MaxExpenses
            /\ expenses' = [expenses EXCEPT
                               !.rows = IF written
                                            THEN Append(@, new_expense)
                                            ELSE @,
                               !.last = [op |-> "add_expense_from_voice", text |-> text,
                                         amount |-> given, category |-> category,
                                         returns |-> written, already |-> FALSE]]
            /\ UNCHANGED <<payroll, tax, requests, data_cache, world, split, probe, staff>>

\* base_expense_manager.py 37-84, for the manager of the sheet 'office'
add_fixed_expenses_if_needed ==
    LET df == expenses.rows
        current_month_expenses ==
            {i \in 1..Len(df) :
                /\ in_current_month(df[i].date, TRUE, expenses.day)
                /\ \E k \in 1..Len(fixed_expenses) : df[i].category = fixed_expenses[k].category}
        new_df == [k \in 1..Len(fixed_expenses) |->
                     [date |-> "today", category |-> fixed_expenses[k].category,
                      amount |-> fixed_expenses[k].amount, payment_method |-> "ru:karta",
                      comments |-> fixed_expenses[k].comments]]
        written == current_month_expenses = {} /\ expenses.file = "workbook"
    IN  /\ probe = <<>>
        /\ written => Len(df) < 3 * MaxExpenses
        /\ expenses' = [expenses EXCEPT
                           !.rows = IF written THEN df \o new_df ELSE df,
                           !.last = [op |-> "add_fixed_expenses_if_needed", text |-> <<>>,
                                     amount |-> NoAmount, category |-> "",
                                     returns |-> written, already |-> FALSE]]
        /\ UNCHANGED <<payroll, tax, requests, data_cache, world, split, probe, staff>>

\* utils.py 682-752: any row read as a row of the month stops the call;
\* line 714 replaces the date column by what it was read as, and that is
\* what line 742 saves
add_office_constants ==
    LET office_df == [i \in 1..Len(expenses.rows) |->
                        [expenses.rows[i] EXCEPT
                            !.date = IF in_current_month(@, FALSE, expenses.day)
                                         THEN "ts_month" ELSE "ts_other"]]
        monthly_expenses == {i \in 1..Len(office_df) : office_df[i].date = "ts_month"}
        new_df == [k \in 1..Len(fixed_expenses) |->
                     [date |-> "today", category |-> fixed_expenses[k].category,
                      amount |-> fixed_expenses[k].amount, payment_method |-> "ru:karta",
                      comments |-> fixed_expenses[k].comments]]
        written == monthly_expenses = {} /\ expenses.file = "workbook"
    IN  /\ probe = <<>>
        /\ written => Len(office_df) < 3 * MaxExpenses
        /\ expenses' = [expenses EXCEPT
                           !.rows = IF written THEN office_df \o new_df ELSE @,
                           !.last = [op |-> "add_office_constants", text |-> <<>>,
                                     amount |-> NoAmount, category |-> "",
                                     returns |-> written,
                                     already |-> monthly_expenses # {}]]
        /\ UNCHANGED <<payroll, tax, requests, data_cache, world, split, probe, staff>>

NextExpenses ==
    \/ extract_amount_call
    \/ add_expense_from_voice
    \/ add_fixed_expenses_if_needed
    \/ add_office_constants

SpecExpenses == InitExpenses /\ [][NextExpenses]_vars

----------------------------------------------------------------------------
(* Renaming an employee, src/employee_rename_manager.py and the commands   *)
(* /rename and /confirm_rename of src/command_handlers.py.  A name is the  *)
(* sequence of its characters.  Of Alseit.xlsx the model keeps the column  *)
(* 'manager' of the sales sheet and the header row of the salary sheet, of *)
(* expenses.xlsx the column 'employee' of the sheets 'personal' and        *)
(* 'office'; a sheet that is missing reads like a sheet without the        *)
(* column, the exception being caught.                                     *)

NoName == <<>>
Ivan == <<"i", "v">>
Petr == <<"p", "e">>
Date == <<"d", "a", "t", "e">>
Developer == <<"d", "e", "v", "e", "l", "o", "p", "e", "r">>

\* a cell of a name column: a text, or blank (NaN once read)
Cell(name) == [blank |-> FALSE, text |-> name]
BlankCell == [blank |-> TRUE, text |-> NoName]

\* a name column of a sheet, or the sheet without that column
Column(cells) == [present |-> TRUE, cells |-> cells]
NoColumn == [present |-> FALSE, cells |-> <<>>]

\* str.strip_name()
RECURSIVE strip_name(_)
strip_name(name) ==
    IF name = <<>> THEN <<>>
    ELSE IF Head(name) = " " THEN strip_name(Tail(name))
    ELSE IF name[Len(name)] = " " THEN strip_name(SubSeq(name, 1, Len(name) - 1))
    ELSE name

\* the columns of the DataFrame read_excel makes of a header row: the n-th
\* repeat of a name is called 'name.n'
columns_of(header) ==
    [k \in 1..Len(header) |->
        LET n == Cardinality({j \in 1..(k - 1) : header[j] = header[k]})
        IN  IF n = 0 THEN header[k]
            ELSE header[k] \o <<".", <<"1", "2", "3", "4", "5", "6", "7", "8", "9">>[n]>>]

\* (df[column] == old_name).sum()
old_count(column, old_name) ==
    Cardinality({i \in 1..Len(column.cells) : column.cells[i] = Cell(old_name)})

\* df[column].dropna().unique() kept where str(m).strip_name() is not empty
names_of(column) ==
    {column.cells[i].text : i \in {j \in 1..Len(column.cells) :
                                     /\ ~column.cells[j].blank
                                     /\ strip_name(column.cells[j].text) # <<>>}}

\* lines 65-66: rename_exclude_cols
rename_exclude_cols ==
    {Date, <<"o", "r", "d", "e", "r">>, Developer,
     <<"e", "m", "p", "l", "o", "y", "e", "e", " ", "R", "O", "P">>,
     <<"a", "s", "s", "i", "s", "t", "a", "n", "t">>,
     <<"a", "s", "s", "i", "s", "t", "a", "n", "t", " ", "2">>,
     <<"s", "u", "p", "p", "l", "i", "e", "r", " ", "m", "a", "n", "a", "g", "e", "r">>}

\* get_all_employee_names, as the set of the names of all four lists
get_all_employee_names(books) ==
    (IF books.alseit
        THEN names_of(books.manager)
             \cup ({columns_of(books.header)[k] : k \in 1..Len(books.header)} \ rename_exclude_cols)
        ELSE {})
    \cup (IF books.expenses THEN names_of(books.personal) \cup names_of(books.office) ELSE {})

\* validate_rename: is_valid
validate_rename(books, old_name, new_name) ==
    IF old_name = <<>> \/ new_name = <<>> THEN FALSE
    ELSE IF strip_name(old_name) = strip_name(new_name) THEN FALSE
    ELSE IF Len(strip_name(new_name)) < 2 THEN FALSE
    ELSE old_name \in get_all_employee_names(books)

\* get_rename_preview: the counts of the four sheets
get_rename_preview(books, old_name) ==
    [sales |-> IF books.alseit /\ books.manager.present
                  THEN old_count(books.manager, old_name) ELSE 0,
     salary |-> IF books.alseit
                      /\ \E k \in 1..Len(books.header) : columns_of(books.header)[k] = old_name
                   THEN 1 ELSE 0,
     personal |-> IF books.expenses /\ books.personal.present
                     THEN old_count(books.personal, old_name) ELSE 0,
     office |-> IF books.expenses /\ books.office.present
                   THEN old_count(books.office, old_name) ELSE 0]

total_changes(preview) == preview.sales + preview.salary + preview.personal + preview.office

\* df[column].replace(old_name, new_name), written back when a cell matched
replace(column, old_name, new_name) ==
    IF column.present /\ old_count(column, old_name) > 0
        THEN Column([i \in 1..Len(column.cells) |->
                        IF column.cells[i] = Cell(old_name) THEN Cell(new_name)
                        ELSE column.cells[i]])
        ELSE column

\* a mutant: dry_run is not looked at
rename_employee_always(books, old_name, new_name, dry_run) ==
    LET columns == columns_of(books.header)
    IN  [books EXCEPT
            !.manager = IF books.alseit THEN replace(@, old_name, new_name) ELSE @,
            !.header = IF books.alseit /\ \E k \in 1..Len(columns) : columns[k] = old_name
                          THEN [k \in 1..Len(columns) |->
                                   IF columns[k] = old_name THEN new_name ELSE columns[k]]
                          ELSE @,
            !.personal = IF books.expenses THEN replace(@, old_name, new_name) ELSE @,
            !.office = IF books.expenses THEN replace(@, old_name, new_name) ELSE @]

\* rename_employee: the workbooks after the call.  Each sheet is read, and
\* it is written back only under `if not dry_run`; the salary sheet is
\* written with the columns of the DataFrame, old_name renamed.
rename_employee(books, old_name, new_name, dry_run) ==
    LET columns == columns_of(books.header)
    IN  IF dry_run THEN books
        ELSE [books EXCEPT
                !.manager = IF books.alseit THEN replace(@, old_name, new_name) ELSE @,
                !.header = IF books.alseit /\ \E k \in 1..Len(columns) : columns[k] = old_name
                              THEN [k \in 1..Len(columns) |->
                                       IF columns[k] = old_name THEN new_name ELSE columns[k]]
                              ELSE @,
                !.personal = IF books.expenses THEN replace(@, old_name, new_name) ELSE @,
                !.office = IF books.expenses THEN replace(@, old_name, new_name) ELSE @]

\* the names a caller of the methods or of a script may pass
Names == {NoName, <<"a">>, Ivan, Ivan \o <<" ">>, Petr}

\* context.args[0] and " ".join(context.args[1:]): words, joined by one blank
Words == {<<"a">>, Ivan, Petr}
Joined == {<<"a">>, Petr, Ivan \o <<" ">> \o Petr}

NameCells == {Cell(Ivan), Cell(Petr)}

InitRename ==
    /\ PayrollIdle
    /\ TaxIdle
    /\ BotIdle
    /\ CacheIdle
    /\ split = <<>>
    /\ expenses = <<>>
    /\ probe = <<>>
    /\ \E alseit \in BOOLEAN, has_expenses \in BOOLEAN :
       \E manager \in {NoColumn} \cup
                      UNION {{Column(cells) : cells \in [1..n -> NameCells]} : n \in 0..MaxCells} :
       \E header \in {<<Date, Developer, Ivan>>, <<Date, Ivan, Petr>>} :
       \E personal \in {NoColumn, Column(<<Cell(Ivan)>>)} :
       \E office \in {Column(<<BlankCell, Cell(Petr)>>)} :
          /\ alseit \/ has_expenses
          /\ staff = [books |-> [alseit |-> alseit, manager |-> manager, header |-> header,
                                 expenses |-> has_expenses, personal |-> personal,
                                 office |-> office],
                      last |-> [op |-> "none", is_valid |-> FALSE, dry_run |-> FALSE,
                                confirm |-> FALSE]]

\* a call of one of the methods that only look: validate_rename,
\* get_rename_preview, rename_employee(dry_run=True)
validate_rename_call ==
    /\ \E old_name \in Names, new_name \in Names :
          staff' = [staff EXCEPT !.last = [op |-> "validate_rename",
                                           is_valid |-> validate_rename(staff.books, old_name, new_name),
                                           dry_run |-> FALSE, confirm |-> FALSE]]
    /\ UNCHANGED <<payroll, tax, requests, data_cache, world, split, expenses, probe>>

get_rename_preview_call ==
    /\ \E old_name \in Names :
          staff' = [staff EXCEPT !.last = [op |-> "get_rename_preview",
                                           is_valid |-> total_changes(get_rename_preview(staff.books, old_name)) > 0,
                                           dry_run |-> FALSE, confirm |-> FALSE]]
    /\ UNCHANGED <<payroll, tax, requests, data_cache, world, split, expenses, probe>>

rename_employee_dry_run ==
    /\ \E old_name \in Names, new_name \in Names :
          staff' = [books |-> rename_employee(staff.books, old_name, new_name, TRUE),
                    last |-> [op |-> "rename_employee",
                              is_valid |-> validate_rename(staff.books, old_name, new_name),
                              dry_run |-> TRUE, confirm |-> FALSE]]
    /\ UNCHANGED <<payroll, tax, requests, data_cache, world, split, expenses, probe>>

\* /rename: validation, then the preview, then a reply
rename_employee_command ==
    /\ \E old_name \in Words, new_name \in Joined :
          LET is_valid == validate_rename(staff.books, old_name, new_name)
              preview == get_rename_preview(staff.books, old_name)
          IN  staff' = [staff EXCEPT !.last = [op |-> "rename_employee_command",
                                               is_valid |-> is_valid,
                                               dry_run |-> FALSE,
                                               confirm |-> is_valid /\ total_changes(preview) > 0]]
    /\ UNCHANGED <<payroll, tax, requests, data_cache, world, split, expenses, probe>>

\* /confirm_rename: validation, then rename_employee(dry_run=False)
confirm_rename_command ==
    /\ \E old_name \in Words, new_name \in Joined :
          LET is_valid == validate_rename(staff.books, old_name, new_name)
          IN  staff' = [books |-> IF is_valid
                                     THEN rename_employee(staff.books, old_name, new_name, FALSE)
                                     ELSE staff.books,
                        last |-> [op |-> "confirm_rename_command", is_valid |-> is_valid,
                                  dry_run |-> FALSE, confirm |-> is_valid]]
    /\ UNCHANGED <<payroll, tax, requests, data_cache, world, split, expenses, probe>>

\* main of employee_rename_manager.py, and likewise the script
\* rename_employee.py: validation, the preview, an exit when nothing would
\* change or with --dry-run, the question, then rename_employee(dry_run=False)
main ==
    /\ \E old_name \in Names, new_name \in Names, dry_run \in BOOLEAN, confirm \in BOOLEAN :
          LET is_valid == validate_rename(staff.books, old_name, new_name)
              preview == get_rename_preview(staff.books, old_name)
              asked == is_valid /\ total_changes(preview) > 0 /\ ~dry_run
          IN  staff' = [books |-> IF asked /\ confirm
                                     THEN rename_employee(staff.books, old_name, new_name, FALSE)
                                     ELSE staff.books,
                        last |-> [op |-> "main", is_valid |-> is_valid,
                                  dry_run |-> dry_run, confirm |-> asked /\ confirm]]
    /\ UNCHANGED <<payroll, tax, requests, data_cache, world, split, expenses, probe>>

NextRename ==
    \/ validate_rename_call
    \/ get_rename_preview_call
    \/ rename_employee_dry_run
    \/ rename_employee_command
    \/ confirm_rename_command
    \/ main

SpecRename == InitRename /\ [][NextRename]_vars

----------------------------------------------------------------------------
(* The claims *)

JustRan == lastOp = "update_salary"
RanOk == JustRan /\ outcome = "ok"
Ledger == Tail(salary.rows)
Oklads == salary.rows[1]
Managers == SeqRange(manager_cols(salary.columns))
FixedRoles == SeqRange(fixed_salary_cols) \cap SeqRange(salary.columns)
LineOf(col) == {i \in 1..Len(summary) : summary[i].Tip = col}

\* the boiler a row names, and whether the catalog prices it
NameOf(row) == row.boiler_name.s
Recognised(row) ==
    /\ ~isna(row.boiler_name)
    /\ NameOf(row) \in DOMAIN catalog
    /\ catalog[NameOf(row)].price # 0

\* the claimed figures of one sale, from the catalog entry, the tier
\* deduction, the payment bucket, the accessories and the quantity
Claimed(entry, low, bank, accessories, q) ==
    LET total == entry.price * q
        deduction == IF low THEN 50000 ELSE 100000
        mb == ((total - deduction) * 5) \div 100
    IN  [raised |-> FALSE,
         manager_bonus |-> mb,
         rop_bonus |-> (total - deduction) \div 100,
         profit |-> total - (IF bank THEN (total * 12) \div 100 ELSE 0)
                      - (total * 4) \div 100 - mb - entry.purchase * q - accessories]

\* C1: the final line 'ОБЩАЯ СУММА' of a summary is the sum of all the lines
\* before it (a blank total, NaN, makes the sum blank).
C1_Reconciliation ==
    summary # <<>> =>
        LET n == Len(summary)
        IN  /\ n >= 2
            /\ summary[n].Tip = TOTAL_LINE
            /\ \A i \in 1..(n - 1) : summary[i].Tip # TOTAL_LINE
            /\ summary[n].Summa =
                  IF \E i \in 1..(n - 1) : isna(summary[i].Summa)
                      THEN NaN
                      ELSE Num(SumSeq([i \in 1..(n - 1) |-> summary[i].Summa.n]))

C1_Witness ==
    /\ RanOk
    /\ Len(summary) >= 5
    /\ LineOf("manager_1") # {}
    /\ LineOf("developer") # {}
    /\ summary[1].Summa.n > Oklads["employee ROP"].n
    /\ summary[Len(summary)].Summa.n > summary[1].Summa.n

\* C2: a run that directly follows a successful run, with no edit in
\* between, succeeds and leaves the ledger sheet and the summary sheet as the
\* first run wrote them.
C2_Idempotent ==
    [][(RanOk /\ lastOp' = "update_salary") =>
          (outcome' = "ok" /\ salary' = salary /\ summary' = summary)]_vars

C2_Witness ==
    /\ RanOk
    /\ repeats = 2
    /\ Len(Ledger) = 2
    /\ \E i \in 1..Len(sales) : ~has_boiler(sales[i]) \/ sales[i].manager \notin Managers

\* the (date, order) groups of a set of rows of the sales sheet, dates as
\* update_salary reads and writes them
GroupsOf(rows) == {<<strftime(to_datetime(sales[i].date)), sales[i].order>> : i \in rows}
LedgerKey(j) == <<Ledger[j]["date"], Ledger[j]["order"].n>>

\* C3, as claimed: after a run the ledger is the base-salary row and one row
\* per (date, order) group of the sales rows present.
C3_OneRowPerGroupOfAllRows ==
    RanOk => Len(salary.rows) = 1 + Cardinality(GroupsOf(1..Len(sales)))

\* C3, amended: after a run the ledger sheet is the base-salary row followed
\* by exactly one row per (date, order) group of the sales rows that have a
\* boiler name; nothing of an earlier run survives and every row's bonus is
\* counted once.
C3_LedgerReplaced ==
    /\ \E s \in SalarySheets : salary.columns = s.columns /\ Oklads = s.rows[1]
    /\ RanOk =>
        LET named == {i \in 1..Len(sales) : ~isna(sales[i].boiler_name)}
        IN  /\ Len(Ledger) = Cardinality(GroupsOf(named))
            /\ {LedgerKey(j) : j \in 1..Len(Ledger)} = GroupsOf(named)
            /\ ColumnSum(Ledger, "employee ROP")
                  = SumSeq([i \in 1..Len(sales) |-> temp[i].rop_bonus])
            /\ \A m \in Managers :
                  ColumnSum(Ledger, m)
                    = SumSeq([i \in 1..Len(sales) |->
                                 IF sales[i].manager = m THEN temp[i].manager_bonus ELSE 0])

C3_Witness ==
    /\ RanOk
    /\ replaced
    /\ Len(sales) = 2
    /\ Len(Ledger) = 1
    /\ \E i \in 1..2 : isna(sales[i].boiler_name)
    /\ ColumnSum(Ledger, "employee ROP") > 0

C5_UnknownManager ==
    /\ RanOk =>
          /\ \A j \in 1..Len(Ledger) :
                Ledger[j]["employee ROP"].n
                  = SumSeq([i \in 1..Len(sales) |->
                               IF <<sales[i].date, sales[i].order>> = LedgerKey(j)
                                   THEN temp[i].rop_bonus ELSE 0])
          /\ SumSeq([i \in 1..Len(manager_cols(salary.columns)) |->
                        ColumnSum(Ledger, manager_cols(salary.columns)[i])])
                = SumSeq([i \in 1..Len(sales) |->
                             IF sales[i].manager \in Managers
                                 THEN temp[i].manager_bonus ELSE 0])
    /\ (JustRan /\ outcome = "error") =>
          \/ \A i \in 1..Len(sales) : isna(sales[i].boiler_name)
          \/ \E i \in 1..Len(sales) : Recognised(sales[i]) /\ sales[i].quantity.k = "str"

C5_Witness ==
    /\ RanOk
    /\ Managers # {}
    /\ \A i \in 1..Len(sales) : sales[i].manager \notin Managers
    /\ ColumnSum(Ledger, "employee ROP") > 0
    /\ \A m \in Managers : ColumnSum(Ledger, m) = 0

ClaimedOf(row) ==
    Claimed(catalog[NameOf(row)],
            NameOf(row) \in {"ru:mini_12", "ru:mini_16", "ru:mini_20", "alseit_25", "alseit_30"},
            FALSE, 0,
            IF row.quantity.k = "num" THEN row.quantity.n ELSE 1)

\* C7: calculate_boiler_bonus returns (0, 0, 0) for a name that is not in the
\* catalog and for a catalog price of 0, whatever the other arguments; in a
\* run such a row has zero bonuses and the ROP and manager totals of the
\* ledger are those of the other rows alone.
C7_ZeroResult ==
    /\ (call.done /\ (call.args[1] \notin DOMAIN catalog \/ catalog[call.args[1]].price = 0))
          => call.result = ZeroResult
    /\ RanOk =>
          /\ \A i \in 1..Len(sales) : ~Recognised(sales[i]) => temp[i] = ZeroResult
          /\ ColumnSum(Ledger, "employee ROP")
                = SumSeq([i \in 1..Len(sales) |->
                             IF Recognised(sales[i])
                                 THEN ClaimedOf(sales[i]).rop_bonus ELSE 0])
          /\ \A m \in Managers :
                ColumnSum(Ledger, m)
                  = SumSeq([i \in 1..Len(sales) |->
                               IF Recognised(sales[i]) /\ sales[i].manager = m
                                   THEN ClaimedOf(sales[i]).manager_bonus ELSE 0])

C7_Witness ==
    /\ RanOk
    /\ "elbrus_100" \in DOMAIN catalog
    /\ Len(sales) = 2
    /\ NameOf(sales[1]) = "elbrus_100" /\ sales[1].quantity.k = "str"
    /\ Recognised(sales[2])
    /\ temp[1] = ZeroResult
    /\ ColumnSum(Ledger, "employee ROP") = temp[2].rop_bonus
    /\ temp[2].rop_bonus > 0

\* C8, as claimed: with zero sales rows and no manager columns update_salary
\* does not raise; the ledger is empty and the summary is the single line
\* 'ОБЩАЯ СУММА' with 0.
C8_EmptyPeriod ==
    (JustRan /\ sales = <<>> /\ Managers = {}) =>
        /\ outcome = "ok"
        /\ Ledger = <<>>
        /\ summary = <<Line(TOTAL_LINE, Num(0))>>

\* C9, as claimed: no bad sales row aborts a run; a quantity that is blank
\* or no number counts as 1, accessories that are blank or no number as 0,
\* and the rows are computed and written to the ledger.
C9_BadRowTolerated ==
    (JustRan /\ \E i \in 1..Len(sales) : ~isna(sales[i].boiler_name)) =>
        /\ outcome = "ok"
        /\ \A i \in 1..Len(sales) :
              Recognised(sales[i]) =>
                  /\ temp[i].rop_bonus = ClaimedOf(sales[i]).rop_bonus
                  /\ temp[i].manager_bonus = ClaimedOf(sales[i]).manager_bonus
        /\ ColumnSum(Ledger, "employee ROP")
              = SumSeq([i \in 1..Len(sales) |->
                           IF Recognised(sales[i]) THEN ClaimedOf(sales[i]).rop_bonus ELSE 0])

\* C10: a fixed-salary role or a manager has a line in the summary exactly
\* when its base salary plus its bonuses over the ledger is greater than 0,
\* and the line carries that total.
C10_PositiveLines ==
    RanOk =>
        \A col \in FixedRoles \cup Managers :
            LET bonuses == ColumnSum(Ledger, col)
                positive == Oklads[col].k = "num" /\ Oklads[col].n + bonuses > 0
            IN  /\ Cardinality(LineOf(col)) = IF positive THEN 1 ELSE 0
                /\ \A i \in LineOf(col) :
                      summary[i].Summa = Num(Oklads[col].n + bonuses)

C10_Witness ==
    /\ RanOk
    /\ Managers = {"manager_1", "manager_2"}
    /\ LineOf("manager_1") = {} /\ ColumnSum(Ledger, "manager_1") < 0
    /\ LineOf("manager_2") # {} /\ ColumnSum(Ledger, "manager_2") > 0
    /\ LineOf("developer") # {}
    /\ LineOf("assistant") = {} /\ "assistant" \in FixedRoles

\* the bank tax a computed profit has had deducted: what is missing from the
\* profit of the same row paid in cash
BankTaxIn(f) ==
    LET row == tax.row
        q == float_or(row.quantity, 1)
        total_price == row.price.n * q
        ded == delivery_for_bonus(raw_text(strip(row.boiler_name)), 0)
        manager_bonus == Pct(total_price - ded, MANAGER_BONUS_RATE)
    IN  boiler_profit(total_price, row.purchase.n * q, "ru:nalichnye", manager_bonus,
                      float_or(row.accessories, 0), ded)
          - tax.by[f].profit.n

\* C11, as claimed: a raw payment method falls in the bucket bank or cash
\* (blank and unrecognised values are cash), and each of update_salary,
\* get_gross_profit, get_net_profit and get_net_profit_from_sales deducts the
\* 12% bank tax from the profit of a row exactly when the bucket is bank.
C11_SameBucketSameTax ==
    tax # <<>> =>
        LET bank == normalize_payment(tax.row.payment_method) = "ru:bank"
            total_price == tax.row.price.n * float_or(tax.row.quantity, 1)
        IN  \A f \in ProfitFunctions :
                (tax.by[f].state = "computed" /\ ~isna(tax.by[f].profit)) =>
                    BankTaxIn(f) = IF bank THEN Pct(total_price, BANK_TAX_RATE) ELSE 0

\* C12, as claimed: a run of update_salary leaves the sheet 'продажи' as it
\* was, every row with the same value in every field.
C12_SalesUntouched == [][lastOp' = "update_salary" => sales' = sales]_vars

\* C13: the step of a handler that runs update_salary writes what a single
\* run on the workbook then present writes, and once both requests are
\* answered, the last of them having succeeded with no sale added since, the
\* ledger and the summary are those of a single run on the sales sheet.
AllDone == \A r \in Requests : requests[r].pc = "done"
C13_NoInterleaving ==
    /\ [][\A r \in Requests :
            (requests[r].pc = "queued" /\ requests'[r].pc = "replying") =>
                LET run == run_update_salary(sales, salary)
                IN  /\ salary' = run.salary
                    /\ ~run.raised => (sales' = run.sales /\ summary' = run.summary)]_vars
    /\ []((AllDone /\ RanOk) =>
            LET run == run_update_salary(sales, salary)
            IN  ~run.raised /\ run.salary = salary /\ run.summary = summary)

C13_Witness ==
    /\ AllDone
    /\ RanOk
    /\ replaced
    /\ Len(sales) = 2
    /\ Len(Ledger) = 2

\* C14, as claimed: a get never returns data that was set before the file's
\* latest modification: once the modification time has grown after
\* set(file, sheet, d), get(file, sheet) returns None until the sheet is set
\* again.
C14_NoStaleData ==
    (world # <<>> /\ world.got # <<>>) =>
        LET key == world.got[1]
        IN  (key \in DOMAIN world.lastSet
               /\ world.lastSet[key].mtime < world.mtime[key[1]])
                => world.got[2] = None

RECURSIVE Join(_)
Join(parts) == IF parts = <<>> THEN <<>> ELSE Head(parts) \o Join(Tail(parts))
Ceil(n, d) == (n + d - 1) \div d

\* C16, as claimed: the parts of both functions join to the text, none is
\* longer than max_length, and there are ceil(len(text) / max_length) of them.
C16_CeilParts ==
    split # <<>> =>
        \A f \in DOMAIN split.made :
            LET parts == split.made[f]
            IN  /\ Join(parts) = split.text
                /\ \A k \in 1..Len(parts) : Len(parts[k]) <= split.max_length
                /\ Len(parts) = Ceil(Len(split.text), split.max_length)

\* C16, amended: the parts join to the text, none is longer than max_length,
\* and there are ceil(len(text) / max_length) of them, except that the empty
\* text gives one empty part.
C16_Parts ==
    split # <<>> =>
        \A f \in DOMAIN split.made :
            LET parts == split.made[f]
            IN  /\ Join(parts) = split.text
                /\ \A k \in 1..Len(parts) : Len(parts[k]) <= split.max_length
                /\ Len(parts) = IF split.text = <<>> THEN 1
                                ELSE Ceil(Len(split.text), split.max_length)

C16_Witness ==
    /\ split # <<>>
    /\ DOMAIN split.made = {"utils", "handler"}
    /\ Len(split.text) = 4 /\ split.max_length = 3
    /\ split.made["utils"] = <<SubSeq(split.text, 1, 3), SubSeq(split.text, 4, 4)>>
    /\ split.made["handler"] = split.made["utils"]

\* C17: add_expense_from_voice, when an amount is given or can be extracted
\* from the text, appends exactly one row (today's date, the category, the
\* amount, the payment method, the text) after the rows of the sheet, leaves
\* the earlier rows as they were and returns True; when no amount can be
\* determined it returns False and leaves the sheet as it was.
C17_AddExpense ==
    [][(probe = <<>> /\ expenses' # expenses
          /\ expenses'.last.op = "add_expense_from_voice") =>
        LET last == expenses'.last
            amount == IF last.amount = NoAmount
                        THEN extract_amount_from_text(last.text) ELSE last.amount
        IN  IF amount # NoAmount
                THEN /\ last.returns
                     /\ expenses'.rows =
                            Append(expenses.rows,
                                   [date |-> "today", category |-> last.category,
                                    amount |-> amount,
                                    payment_method |-> determine_payment_method(last.text),
                                    comments |-> last.text])
                ELSE /\ ~last.returns
                     /\ expenses'.rows = expenses.rows]_vars

\* where the first number of a text begins and ends, 0 when it has none
FirstNumber(text) ==
    LET digits == {i \in 1..Len(text) : IsDigit(text[i])}
    IN  IF digits = {} THEN <<0, 0>>
        ELSE LET i == CHOOSE i \in digits : \A j \in digits : i <= j
             IN  <<i, CHOOSE e \in NumberEnds(text, i) : \A x \in NumberEnds(text, i) : x <= e>>
IsLetter(c) == c \in {"k", "p"}
\* the number carries the suffix: 'к' stands right after it and is no
\* beginning of a longer word
Marked(text) ==
    LET e == FirstNumber(text)[2]
    IN  /\ e < Len(text)
        /\ text[e + 1] = "k"
        /\ e + 1 < Len(text) => ~IsLetter(text[e + 2])
\* the number is plain: no 'к' right after it, and what follows the blanks
\* after it is not a 'к' standing alone
Plain(text) ==
    LET e == FirstNumber(text)[2]
    IN  /\ e < Len(text) => text[e + 1] # "k"
        /\ \A q \in (e + 2)..Len(text) :
              (text[q] = "k" /\ \A j \in (e + 1)..(q - 1) : text[j] = " ")
                  => (q < Len(text) /\ IsLetter(text[q + 1]))

\* C18: _extract_amount_from_text returns N*1000 when the first number N of
\* the text carries the thousand suffix 'к', N itself when that number is a
\* plain number, whatever word follows it, and None when the text has no
\* number.
C18_Amount ==
    (probe # <<>> /\ probe.done) =>
        LET text == probe.text
            first == FirstNumber(text)
            N == float(SubSeq(text, first[1], first[2]))
        IN  IF first[1] = 0 THEN probe.found = NoAmount
            ELSE /\ Marked(text) => probe.found = [N EXCEPT !.exp = @ + 3]
                 /\ Plain(text) => probe.found = N

\* the rows of the sales sheet that a ledger row stands for
GroupOf(j) ==
    {i \in 1..Len(sales) :
        has_boiler(sales[i]) /\ <<sales[i].date, sales[i].order>> = LedgerKey(j)}

\* C19: a run emits exactly one ledger row per distinct (date, order) pair of
\* the processed sales rows (those with a boiler name); in that row the ROP
\* column is the sum of rop_bonus over the rows of the group, each manager
\* column is the sum of manager_bonus over the group's rows credited to that
\* manager, and every other roster column holds the number 0, never a blank.
C19_LedgerRow ==
    RanOk =>
        /\ \A j, k \in 1..Len(Ledger) : LedgerKey(j) = LedgerKey(k) => j = k
        /\ \A i \in 1..Len(sales) :
              has_boiler(sales[i]) => \E j \in 1..Len(Ledger) : i \in GroupOf(j)
        /\ \A j \in 1..Len(Ledger) :
              /\ GroupOf(j) # {}
              /\ DOMAIN Ledger[j] = SeqRange(salary.columns)
              /\ Ledger[j]["employee ROP"]
                    = Num(SumSeq([i \in 1..Len(sales) |->
                                     IF i \in GroupOf(j) THEN temp[i].rop_bonus ELSE 0]))
              /\ \A m \in Managers :
                    Ledger[j][m]
                      = Num(SumSeq([i \in 1..Len(sales) |->
                                       IF i \in GroupOf(j) /\ sales[i].manager = m
                                           THEN temp[i].manager_bonus ELSE 0]))
              /\ \A c \in SeqRange(salary.columns) \ (Managers \cup {"date", "order", "employee ROP"}) :
                    Ledger[j][c] = Num(0)

C19_Witness ==
    /\ RanOk
    /\ Len(Ledger) = 1
    /\ GroupOf(1) = {1, 2}
    /\ sales[1].manager = "manager_1"
    /\ sales[2].manager = "manager_2"
    /\ Ledger[1]["manager_1"].n > 0
    /\ Ledger[1]["manager_2"].n > Ledger[1]["manager_1"].n
    /\ Ledger[1]["employee ROP"].n = temp[1].rop_bonus + temp[2].rop_bonus
    /\ temp[1].rop_bonus > 0
    /\ temp[2].rop_bonus > 0
    /\ Ledger[1]["developer"] = Num(0)

\* C20: the aggregator skips the sales rows whose product the catalog does
\* not know: such a row makes no ledger row and adds nothing to any total,
\* so an order made only of unknown products has no row in the ledger.
C20_UnknownSkipped ==
    RanOk =>
        /\ \A j \in 1..Len(Ledger) :
              \E i \in GroupOf(j) : boiler_key(sales[i].boiler_name) \in DOMAIN catalog
        /\ \A i \in 1..Len(sales) :
              (has_boiler(sales[i]) /\ boiler_key(sales[i].boiler_name) \notin DOMAIN catalog)
                  => temp[i] = ZeroResult

\* C23: get never returns an entry more than CACHE_DURATION seconds after it
\* was set: for such an entry get returns None and removes the entry, so
\* that the next load reads the file again.
C23_NeverOlder ==
    [][world'.got # <<>> =>
        LET key == world'.got[1]
        IN  (key \in DOMAIN data_cache.cache
               /\ world.now - data_cache.timestamps[key] > CACHE_DURATION)
              => (world'.got[2] = None /\ key \notin DOMAIN data_cache'.cache)]_vars

\* a get of an entry that only its age has removed
C23_Witness ==
    /\ world.got # <<>>
    /\ world.got[2] = None
    /\ DOMAIN world.lastSet = {world.got[1]}
    /\ world.now - world.lastSet[world.got[1]].now > CACHE_DURATION
    /\ world.mtime[world.got[1][1]] = world.lastSet[world.got[1]].mtime
    /\ world.got[1][1] \in DOMAIN data_cache.file_mod_times
    /\ data_cache.cache = <<>>

\* C24: the cache is bounded: after any sequence of set and load operations
\* the number of files, and of entries, that the cache holds never exceeds
\* MAX_CACHE_SIZE.
C24_Bounded ==
    /\ Cardinality(DOMAIN data_cache.cache) <= MAX_CACHE_SIZE
    /\ Cardinality(DOMAIN data_cache.file_mod_times) <= MAX_CACHE_SIZE

\* C21: get_salary_summary uses the logic of update_salary: for the same
\* sales rows and the same base-salary row its overall total and each
\* employee's total are the grand total and the lines that update_salary
\* writes to the summary sheet, and it succeeds exactly on the inputs on
\* which update_salary succeeds.  (Before the first run the sheets are those
\* the summary was computed from.)
C21_SameSummary ==
    [][(lastOp = "init" /\ probe # <<>> /\ lastOp' = "update_salary") =>
          /\ probe.raised <=> outcome' = "error"
          /\ (~probe.raised /\ outcome' = "ok") =>
                /\ probe.lines = SubSeq(summary', 1, Len(summary') - 1)
                /\ probe.total_all = summary'[Len(summary')].Summa]_vars

\* C22: for the same sales sheet and the same office expenses,
\* get_net_profit() is max(0, get_net_profit_from_sales() less the office
\* expenses of the month), and it is never negative.
C22_NetProfit ==
    (tax # <<>> /\ {"net", "from_sales"} \subseteq DOMAIN probe) =>
        /\ probe["net"] >= 0
        /\ probe["net"] = IF probe["from_sales"] - probe["office"] > 0
                              THEN probe["from_sales"] - probe["office"] ELSE 0

\* the fixed expenses that a sheet records for the current month
FixedOfMonth(rows) ==
    {i \in 1..Len(rows) :
        /\ rows[i].date \in {"today", "ts_month"}
        /\ \E k \in 1..Len(fixed_expenses) : rows[i].category = fixed_expenses[k].category}

\* C25: add_office_constants adds the fixed office expenses whenever the
\* sheet 'office' holds no fixed-expense row of the current month: it appends
\* all four of them, even when other office expenses of the month are there.
C25_ConstantsAdded ==
    [][(probe = <<>> /\ expenses' # expenses /\ expenses'.last.op = "add_office_constants"
          /\ expenses.file = "workbook" /\ FixedOfMonth(expenses.rows) = {}) =>
        /\ Len(expenses'.rows) = Len(expenses.rows) + Len(fixed_expenses)
        /\ \A k \in 1..Len(fixed_expenses) :
              /\ expenses'.rows[Len(expenses.rows) + k].category = fixed_expenses[k].category
              /\ expenses'.rows[Len(expenses.rows) + k].amount = fixed_expenses[k].amount]_vars

\* C26: fixed expenses are recorded at most once a month: once the sheet has
\* them for the month, every call of add_fixed_expenses_if_needed or of
\* add_office_constants appends nothing, leaves the sheet as it was and
\* answers that they are already added.
C26_OncePerMonth ==
    [][(probe = <<>> /\ expenses' # expenses
          /\ expenses'.last.op \in {"add_fixed_expenses_if_needed", "add_office_constants"}
          /\ FixedOfMonth(expenses.rows) # {}) =>
        /\ expenses'.rows = expenses.rows
        /\ ~expenses'.last.returns
        /\ expenses'.last.op = "add_office_constants" => expenses'.last.already]_vars

\* C28: update_salary changes only the sheets 'продажи', 'зарплата' and
\* 'сводка_бонусов': after every run that completes, every other sheet of
\* the workbook exists with the content it had before.
C28_OtherSheetsKept ==
    [][(lastOp' = "update_salary" /\ outcome' = "ok") => others' = others]_vars

\* C27: renaming is two-step.  validate_rename, get_rename_preview,
\* rename_employee(dry_run=True) and /rename change no sheet of either
\* workbook; the names change only in a step of /confirm_rename or of the
\* confirmed command line, which calls rename_employee(dry_run=False), and
\* only when validate_rename has accepted the pair of names.
C27_TwoStep ==
    [][staff'.books # staff.books =>
          /\ staff'.last.op \in {"confirm_rename_command", "main"}
          /\ staff'.last.is_valid
          /\ staff'.last.confirm
          /\ ~staff'.last.dry_run]_vars

\* after /confirm_rename no 'iv' is left in a workbook that is there, and a
\* 'pe' stands in the manager column
C27_Witness ==
    /\ staff.last.op = "confirm_rename_command"
    /\ staff.last.is_valid
    /\ staff.books.alseit
    /\ staff.books.manager.present
    /\ old_count(staff.books.manager, Petr) > 0
    /\ Ivan \notin get_all_employee_names(staff.books)
    /\ \E k \in 1..Len(staff.books.header) : staff.books.header[k] = Petr

=============================================================================
